---- MODULE Spec2Model ----
(***************************************************************************)
(* The synchronization controller of DevelopmentView.tsx (chat turns,      *)
(* document recovery from chat history, gated code generation, variable    *)
(* edits) together with ChatPanel.handleSubmit and specExtractor.ts.       *)
(*                                                                         *)
(* Spec follows the controller's document, code and conversation.          *)
(* SessionSpec follows, with them, the session's persistence: the saves    *)
(* the handlers schedule and the loading of a conversation record.         *)
(* DeploySpec follows the deploy simulation and its two callers.           *)
(* FunctionSpec follows one call of a function on its own: the extractor   *)
(* and the scan of specExtractor.ts on texts, the layout of                *)
(* ContractFlowchart.tsx, the editors' open and save, the patch of         *)
(* handleVariableUpdate, normalizeSpecForBackend, and the bodies of the    *)
(* requests that carry a document.                                         *)
(* RecordingSpec follows the capture device of useSpeechToText.ts.         *)
(*                                                                         *)
(* A state of the model is a committed render of the component: the        *)
(* useState values, the refs, and the requests whose promise is pending.   *)
(* A handler or a promise continuation is one action (its state updates    *)
(* are batched into one render).  The passive effects of a render are one  *)
(* action, RunEffects: both effects read the same committed values, in     *)
(* declaration order.  A submit, a click or an edit is handled on a render *)
(* whose effects have run; a promise continuation may run at any time.     *)
(***************************************************************************)
EXTENDS Integers, Sequences, FiniteSets, TLC

\* ---------------------------------------------------------------- bounds
MaxTurns == 2        \* chat turns started in a session
MaxEdits == 1        \* variable edits committed in a session
MaxManual == 1       \* clicks on "Regenerate Code"
MaxRecoveries == 2   \* consecutive re-runs of the recovery effect followed
MaxSaves == 2        \* scheduled saves followed in a session
MaxSessionTurns == 1 \* chat turns started in a session whose saves are followed
MaxDeploys == 2      \* deploy simulations started in a session
MaxMessages == 3     \* messages in a list handed to findLatestSpecFromMessages
MaxItems == 4        \* items in a section of a document that is laid out
MaxVariables == 3    \* variables of a document whose variable is updated
MaxPermissions == 2  \* permission rules of a document that is normalized
MaxStarts == 3       \* calls of startRecording in the life of the component

\* ------------------------------------------------------------ JSON values
Undefined == [kind |-> "undefined"]
NullV == [kind |-> "null"]
Str(s) == [kind |-> "string", text |-> s]

\* JavaScript truthiness: objects, non-empty strings, numbers other than 0
\* and true
Truthy(v) ==
  \/ v.kind \in {"doc", "object", "array"}
  \/ v.kind = "string" /\ v.text # ""
  \/ v.kind = "number" /\ v.text # "0"
  \/ v.kind = "boolean" /\ v.text = "true"

\* lastGeneratedSpecIdRef starts as null; document ids are 1, 2, ...
NullId == 0
Ids == 1..(MaxTurns + 1)

\* conversationId is null until a record id is known; an id supplied through
\* navigation is 1, the ids the backend gives new records are 2, 3, ...
NoConversationId == 0
SuppliedId == 1
FirstRecordId == 2

Languages == {"python", "csharp"}

\* ------------------------------------------------------------- documents
Variable(id, v) == [id |-> id, initialValue |-> v]

ContractSpec(id, vars, methods, events, perms) ==
  [kind |-> "doc", id |-> id, variables |-> vars, methods |-> methods,
   events |-> events, permissions |-> perms]

\* a document with a variable and a method
FullDoc(id) == ContractSpec(id, <<Variable("var1", "absent")>>, <<"m1">>, <<>>, <<>>)
\* a document with metadata only
EmptyDoc(id) == ContractSpec(id, <<>>, <<>>, <<>>, <<>>)
\* a document whose only content is a permission rule
PermDoc(id) == ContractSpec(id, <<>>, <<>>, <<>>, <<"p1">>)

\* --------------------------------------------------------- chat messages
\* The content of a message: its text, whether the text holds a brace
\* region ("none"), one that JSON.parse rejects ("bad") or accepts ("ok"),
\* and for a parsed object whether metadata.name is truthy, whether
\* variables is defined, and the object read as a document.
Content(text, json, hasName, hasVars, doc) ==
  [text |-> text, json |-> json, hasName |-> hasName, hasVars |-> hasVars, doc |-> doc]

Plain(text) == Content(text, "none", FALSE, FALSE, NullV)
Prose == Plain("Here is your contract.")
BadJson == Content("{ not json", "bad", FALSE, FALSE, NullV)
NoName(d) == Content("json without metadata.name", "ok", FALSE, TRUE, d)
Embeds(d) == Content("prose and json", "ok", TRUE, TRUE, d)

ChatMessage(role, content) == [role |-> role, content |-> content]

\* ------------------------------------------------------- specExtractor.ts
\* extractSpecFromMessage: no brace region, a parse failure (caught) and an
\* object lacking metadata.name or variables all give null.
extractSpecFromMessage(content) ==
  IF content.json = "ok" /\ content.hasName /\ content.hasVars
  THEN content.doc
  ELSE NullV

\* the loop of findLatestSpecFromMessages, from index i down to 1
RECURSIVE ScanFrom(_, _)
ScanFrom(messages, i) ==
  IF i < 1 THEN NullV
  ELSE IF messages[i].role = "assistant"
          /\ extractSpecFromMessage(messages[i].content) # NullV
       THEN extractSpecFromMessage(messages[i].content)
       ELSE ScanFrom(messages, i - 1)

\* mutant: the scan takes a message of any role
RECURSIVE ScanAnyRole(_, _)
ScanAnyRole(messages, i) ==
  IF i < 1 THEN NullV
  ELSE IF extractSpecFromMessage(messages[i].content) # NullV
       THEN extractSpecFromMessage(messages[i].content)
       ELSE ScanAnyRole(messages, i - 1)

\* mutant: the scan starts at the oldest message
RECURSIVE ScanUpFrom(_, _)
ScanUpFrom(messages, i) ==
  IF i > Len(messages) THEN NullV
  ELSE IF messages[i].role = "assistant"
          /\ extractSpecFromMessage(messages[i].content) # NullV
       THEN extractSpecFromMessage(messages[i].content)
       ELSE ScanUpFrom(messages, i + 1)

findEarliestSpecFromMessages(messages) == ScanUpFrom(messages, 1)

findLatestSpecOfAnyRole(messages) == ScanAnyRole(messages, Len(messages))

findLatestSpecFromMessages(messages) == ScanFrom(messages, Len(messages))

isSpecIncomplete(spec) ==
  IF spec = NullV THEN TRUE
  ELSE LET hasVariables == Len(spec.variables) > 0
           hasMethods == Len(spec.methods) > 0
           hasEvents == Len(spec.events) > 0
           hasPermissions == Len(spec.permissions) > 0
       IN ~hasVariables /\ ~hasMethods /\ ~hasEvents /\ ~hasPermissions

\* ----------------------------------------------------- text and JSON.parse
\* A text is a sequence of lexemes: white space, the fence, punctuation, the
\* quote, numerals, the words true, false and null, and other words.
WhiteSpace == {" ", "\n"}
\* the three backquotes that open and close a code fence
Fence == "'''"
Numerals == {"0", "100"}

\* the string made of the lexemes s: none, one, or several
StrOf(s) ==
  IF s = <<>> THEN Str("")
  ELSE IF Len(s) = 1 THEN Str(s[1])
  ELSE [kind |-> "string", text |-> "(several lexemes)", lexemes |-> s]

\* the lexemes of a string
TextOf(v) ==
  IF v = Str("") THEN <<>>
  ELSE IF "lexemes" \in DOMAIN v THEN v.lexemes
  ELSE <<v.text>>

Num(n) == [kind |-> "number", text |-> n]
Bool(b) == [kind |-> "boolean", text |-> b]
Member(key, value) == [key |-> key, value |-> value]
Object(members) == [kind |-> "object", members |-> members]
Array(items) == [kind |-> "array", items |-> items]

\* the first position from i on that holds no white space
RECURSIVE SkipWs(_, _)
SkipWs(t, i) ==
  IF i <= Len(t) /\ t[i] \in WhiteSpace THEN SkipWs(t, i + 1) ELSE i

\* the first position from i on that holds a quote (Len(t) + 1 if none)
RECURSIVE NextQuote(_, _)
NextQuote(t, i) ==
  IF i <= Len(t) /\ t[i] # "\"" THEN NextQuote(t, i + 1) ELSE i

Failure == [ok |-> FALSE]
Parsed(v, next) == [ok |-> TRUE, value |-> v, next |-> next]

\* a string literal that starts at i
ParseString(t, i) ==
  IF i > Len(t) \/ t[i] # "\"" \/ NextQuote(t, i + 1) > Len(t) THEN Failure
  ELSE Parsed(StrOf(SubSeq(t, i + 1, NextQuote(t, i + 1) - 1)), NextQuote(t, i + 1) + 1)

RECURSIVE ParseValue(_, _), ParseMembers(_, _, _), ParseItems(_, _, _)

\* the members of an object from position i on, after those in acc
ParseMembers(t, i, acc) ==
  LET k == ParseString(t, i)
      c == IF k.ok THEN SkipWs(t, k.next) ELSE 0
      v == IF k.ok /\ c <= Len(t) /\ t[c] = ":"
           THEN ParseValue(t, SkipWs(t, c + 1)) ELSE Failure
      e == IF v.ok THEN SkipWs(t, v.next) ELSE 0
  IN IF ~v.ok \/ e > Len(t) THEN Failure
     ELSE IF t[e] = "," THEN ParseMembers(t, SkipWs(t, e + 1), Append(acc, Member(k.value, v.value)))
     ELSE IF t[e] = "}" THEN Parsed(Object(Append(acc, Member(k.value, v.value))), e + 1)
     ELSE Failure

\* the items of an array from position i on, after those in acc
ParseItems(t, i, acc) ==
  LET v == ParseValue(t, i)
      e == IF v.ok THEN SkipWs(t, v.next) ELSE 0
  IN IF ~v.ok \/ e > Len(t) THEN Failure
     ELSE IF t[e] = "," THEN ParseItems(t, SkipWs(t, e + 1), Append(acc, v.value))
     ELSE IF t[e] = "]" THEN Parsed(Array(Append(acc, v.value)), e + 1)
     ELSE Failure

\* the JSON value that starts at i
ParseValue(t, i) ==
  IF i > Len(t) THEN Failure
  ELSE IF t[i] = "\"" THEN ParseString(t, i)
  ELSE IF t[i] \in Numerals THEN Parsed(Num(t[i]), i + 1)
  ELSE IF t[i] \in {"true", "false"} THEN Parsed(Bool(t[i]), i + 1)
  ELSE IF t[i] = "null" THEN Parsed(NullV, i + 1)
  ELSE IF t[i] = "{"
       THEN IF SkipWs(t, i + 1) <= Len(t) /\ t[SkipWs(t, i + 1)] = "}"
            THEN Parsed(Object(<<>>), SkipWs(t, i + 1) + 1)
            ELSE ParseMembers(t, SkipWs(t, i + 1), <<>>)
  ELSE IF t[i] = "["
       THEN IF SkipWs(t, i + 1) <= Len(t) /\ t[SkipWs(t, i + 1)] = "]"
            THEN Parsed(Array(<<>>), SkipWs(t, i + 1) + 1)
            ELSE ParseItems(t, SkipWs(t, i + 1), <<>>)
  ELSE Failure

\* JSON.parse(t): one value with white space around it; not ok when it throws
JSONparse(t) ==
  LET v == ParseValue(t, SkipWs(t, 1))
  IN IF v.ok /\ SkipWs(t, v.next) > Len(t) THEN v ELSE Failure

\* the members of an object value with the given key
Holding(v, key) == {k \in DOMAIN v.members : v.members[k].key = Str(key)}

\* "key" in v, for a parsed value
Has(v, key) == v.kind = "object" /\ Holding(v, key) # {}

\* v.key: the last member with the key, undefined when there is none or v is
\* a string, a number, a boolean or an array
Get(v, key) ==
  IF Has(v, key)
  THEN v.members[CHOOSE k \in Holding(v, key) : \A j \in Holding(v, key) : j <= k].value
  ELSE Undefined

\* content.replace(/```json\s*/g, '')
RECURSIVE StripJsonFences(_)
StripJsonFences(t) ==
  IF t = <<>> THEN <<>>
  ELSE IF Len(t) >= 2 /\ t[1] = Fence /\ t[2] = "json"
       THEN StripJsonFences(SubSeq(t, SkipWs(t, 3), Len(t)))
       ELSE <<t[1]>> \o StripJsonFences(Tail(t))

\* jsonStr.replace(/```\s*/g, '')
RECURSIVE StripFences(_)
StripFences(t) ==
  IF t = <<>> THEN <<>>
  ELSE IF t[1] = Fence THEN StripFences(SubSeq(t, SkipWs(t, 2), Len(t)))
       ELSE <<t[1]>> \o StripFences(Tail(t))

\* jsonStr.match(/\{[\s\S]*\}/): from the first { to the last } after it
Braces(t, brace) == {k \in DOMAIN t : t[k] = brace}
FirstOpen(t) == CHOOSE k \in Braces(t, "{") : \A j \in Braces(t, "{") : k <= j
LastClose(t) == CHOOSE k \in Braces(t, "}") : \A j \in Braces(t, "}") : j <= k

Matches(t) ==
  Braces(t, "{") # {} /\ Braces(t, "}") # {} /\ FirstOpen(t) < LastClose(t)

jsonMatch(t) == SubSeq(t, FirstOpen(t), LastClose(t))

\* What extractSpecFromMessage finds in a text, up to its test of the parsed
\* value: parsed.metadata && parsed.metadata.name, parsed.variables !== undefined
Read(t) ==
  LET jsonStr == StripFences(StripJsonFences(t))
      parsed == IF Matches(jsonStr) THEN JSONparse(jsonMatch(jsonStr)) ELSE Failure
  IN IF ~Matches(jsonStr) THEN Content(t, "none", FALSE, FALSE, NullV)
     ELSE IF ~parsed.ok THEN Content(t, "bad", FALSE, FALSE, NullV)
     ELSE Content(t, "ok",
                  Truthy(Get(parsed.value, "metadata"))
                    /\ Truthy(Get(Get(parsed.value, "metadata"), "name")),
                  Get(parsed.value, "variables") # Undefined,
                  parsed.value)

\* ------------------------------------------------ normalizeSpecForBackend
\* a || b
Either(a, b) == IF Truthy(a) THEN a ELSE b

\* `perm-${index + 1}` and `Permission ${index + 1}`, index + 1 being i
SynthesizedId(i) == Str(<<"perm-1", "perm-2", "perm-3", "perm-4", "perm-5">>[i])
SynthesizedName(i) ==
  Str(<<"Permission 1", "Permission 2", "Permission 3", "Permission 4", "Permission 5">>[i])

\* a permission rule as the assistant may write it; a field that is missing
\* is undefined
Permission(id, name, role, description, methods, condition) ==
  [id |-> id, name |-> name, role |-> role, description |-> description,
   methods |-> methods, condition |-> condition]

\* descriptionParts
descriptionParts(perm) ==
  (IF Truthy(perm.description) THEN <<[part |-> "", of |-> perm.description]>> ELSE <<>>)
  \o (IF Truthy(perm.methods) /\ Len(perm.methods.items) > 0
      THEN <<[part |-> "Methods: ", of |-> perm.methods]>> ELSE <<>>)
  \o (IF Truthy(perm.condition) /\ perm.condition # Str("any")
      THEN <<[part |-> "Condition: ", of |-> perm.condition]>> ELSE <<>>)

\* descriptionParts.join('. '), or undefined when there is no part
JoinedDescription(parts) ==
  IF parts = <<>> THEN Undefined
  ELSE IF Len(parts) = 1 /\ parts[1].part = "" THEN parts[1].of
  ELSE [kind |-> "string", text |-> "(joined)", parts |-> parts]

\* mutant: the synthesized id counts from 0
normalizedPermissionFromZero(perm, i) ==
  LET id == Either(perm.id, IF i = 1 THEN Str("perm-0") ELSE SynthesizedId(i - 1))
      name == Either(perm.name, Either(perm.role, SynthesizedName(i)))
      description == JoinedDescription(descriptionParts(perm))
  IN IF Truthy(description)
     THEN [id |-> id, name |-> name, description |-> description]
     ELSE [id |-> id, name |-> name]

\* the rule that the map callback returns for the rule at position i
\* (index + 1 = i)
normalizedPermission(perm, i) ==
  LET id == Either(perm.id, SynthesizedId(i))
      name == Either(perm.name, Either(perm.role, SynthesizedName(i)))
      description == JoinedDescription(descriptionParts(perm))
  IN IF Truthy(description)
     THEN [id |-> id, name |-> name, description |-> description]
     ELSE [id |-> id, name |-> name]

normalizeSpecForBackend(spec) ==
  [spec EXCEPT !.permissions =
     [i \in DOMAIN spec.permissions |-> normalizedPermission(spec.permissions[i], i)]]

\* ------------------------------------------------- ContractFlowchart.tsx
\* The layout configuration, and the y of the metadata node.
baseX == 120
columnWidth == 260
rowHeight == 170
sectionGap == 120
columns == 3
firstY == 40

centerX == baseX + ((columns - 1) * columnWidth) \div 2

MetadataNodeId == <<"metadata">>

\* the node and edge ids `var-${id}` and `edge-metadata-var-${id}`
NodeId(prefix, id) == <<prefix, id>>
EdgeId(prefix, id) == <<"edge-metadata", prefix, id>>

FlowNode(id, kind, refId, x, y) ==
  [id |-> id, kind |-> kind, refId |-> refId, position |-> [x |-> x, y |-> y]]

\* buildNode for the item at position i (idx = i - 1) of a section at yPos
buildNode(prefix, kind, ids, i, yPos) ==
  FlowNode(NodeId(prefix, ids[i]), kind, ids[i],
           baseX + ((i - 1) % columns) * columnWidth,
           yPos + ((i - 1) \div columns) * rowHeight)

\* mutant: each item hangs from the item before it
buildEdgeFromSibling(prefix, ids, i) ==
  [id |-> EdgeId(prefix, ids[i]),
   source |-> IF i = 1 THEN MetadataNodeId ELSE NodeId(prefix, ids[i - 1]),
   target |-> NodeId(prefix, ids[i])]

buildEdge(prefix, ids, i) ==
  [id |-> EdgeId(prefix, ids[i]), source |-> MetadataNodeId,
   target |-> NodeId(prefix, ids[i])]

\* mutant: the grid rows that n items occupy, none for an empty section
rowsOccupied(n) == (n + columns - 1) \div columns

\* Math.max(1, Math.ceil(items.length / layout.columns))
rowsUsed(n) ==
  IF (n + columns - 1) \div columns > 1 THEN (n + columns - 1) \div columns ELSE 1

\* yPos after a section of n items placed at yPos
AfterSection(yPos, n) == yPos + rowsUsed(n) * rowHeight + sectionGap

\* what placeSection pushes for a section placed at yPos
placeSection(prefix, kind, ids, yPos) ==
  [nodes |-> [i \in 1..Len(ids) |-> buildNode(prefix, kind, ids, i, yPos)],
   edges |-> [i \in 1..Len(ids) |-> buildEdge(prefix, ids, i)]]

ItemIds(items) == [i \in 1..Len(items) |-> items[i].id]

\* the nodes and edges memo
nodesAndEdges(spec) ==
  IF spec = NullV THEN [nodes |-> <<>>, edges |-> <<>>]
  ELSE LET yVariables == firstY + rowHeight
           yMethods == AfterSection(yVariables, Len(spec.variables))
           yEvents == AfterSection(yMethods, Len(spec.methods))
           variables == placeSection("var", "variable", ItemIds(spec.variables), yVariables)
           methods == placeSection("method", "method", spec.methods, yMethods)
           events == placeSection("event", "event", spec.events, yEvents)
       IN [nodes |-> <<FlowNode(MetadataNodeId, "metadata", spec.id, centerX, firstY)>>
                       \o variables.nodes \o methods.nodes \o events.nodes,
           edges |-> variables.edges \o methods.edges \o events.edges]

\* --------------------------------------------------- opening the editor
\* JSON.stringify(v), without indentation
RECURSIVE Stringify(_), StringifyMembers(_), StringifyItems(_)
StringifyMembers(members) ==
  IF members = <<>> THEN <<>>
  ELSE Stringify(members[1].key) \o <<":">> \o Stringify(members[1].value)
         \o (IF Len(members) = 1 THEN <<>> ELSE <<",">> \o StringifyMembers(Tail(members)))

StringifyItems(items) ==
  IF items = <<>> THEN <<>>
  ELSE Stringify(items[1])
         \o (IF Len(items) = 1 THEN <<>> ELSE <<",">> \o StringifyItems(Tail(items)))

Stringify(v) ==
  IF v.kind = "object" THEN <<"{">> \o StringifyMembers(v.members) \o <<"}">>
  ELSE IF v.kind = "array" THEN <<"[">> \o StringifyItems(v.items) \o <<"]">>
  ELSE IF v.kind = "string" THEN <<"\"">> \o TextOf(v) \o <<"\"">>
  ELSE IF v.kind = "null" THEN <<"null">>
  ELSE <<v.text>>

\* String(v) for a string, a number or a boolean
StringOf(v) == IF v.kind = "string" THEN TextOf(v) ELSE <<v.text>>

\* typeof v === 'object'
IsObject(v) == v.kind \in {"object", "array", "null"}

\* startEditingVariable: the text the editor opens with
startEditingVariable(variable) ==
  IF variable.initialValue # Undefined
  THEN IF IsObject(variable.initialValue)
       THEN Stringify(variable.initialValue)
       ELSE StringOf(variable.initialValue)
  ELSE <<>>

\* ------------------------------------------------- committing an edit text
\* String.prototype.trim on a text
RECURSIVE trim(_)
trim(t) ==
  IF t = <<>> THEN <<>>
  ELSE IF t[1] \in WhiteSpace THEN trim(Tail(t))
  ELSE IF t[Len(t)] \in WhiteSpace THEN trim(SubSeq(t, 1, Len(t) - 1))
  ELSE t

\* ContractFlowchart.handleSaveVariable: the updates handed to
\* onVariableUpdate for the text of editForm.initialValue
handleSaveVariable(text) ==
  LET trimmedValue == trim(text)
      parsed == JSONparse(trimmedValue)
  IN IF trimmedValue = <<>> THEN [initialValue |-> Undefined]
     ELSE IF parsed.ok THEN [initialValue |-> parsed.value]
     ELSE [initialValue |-> StrOf(trimmedValue)]

\* mutant: the text is not trimmed
handleSaveEditUntrimmed(text) ==
  LET parsed == JSONparse(text)
  IN IF text = <<>> THEN [initialValue |-> Undefined]
     ELSE IF parsed.ok THEN [initialValue |-> parsed.value]
     ELSE [initialValue |-> StrOf(text)]

\* ContractStructure.handleSaveEdit: the updates handed to onVariableUpdate
\* for the text of editInitialValue
handleSaveEdit(text) ==
  LET trimmed == trim(text)
      parsed == JSONparse(trimmed)
  IN IF trimmed = <<>> THEN [initialValue |-> Undefined]
     ELSE IF parsed.ok THEN [initialValue |-> parsed.value]
     ELSE [initialValue |-> StrOf(trimmed)]

\* ------------------------------------------------------------ code text
CodeText(text, of) == [kind |-> "string", text |-> text, of |-> of]
EmptyCode == CodeText("", NullId)
\* the code the backend generates for a request that carried document id
GeneratedCode(id) == CodeText("generated", id)
ChatCode == CodeText("from chat", NullId)
\* the text generateCode shows when the request fails
Placeholder(msg) == CodeText(msg, NullId)

\* ----------------------------------------------------------------- state
VARIABLES
  currentSpec,             \* useState: the current document or null
  currentCode,             \* useState: the code text
  language,                \* useState
  chatMessages,            \* useState: the conversation
  isGeneratingCode,        \* useState
  isLoadingMessage,        \* useState
  lastGeneratedSpecIdRef,  \* useRef: id the effect last generated for
  chatRequests,            \* pending fetches of /api/chat/message
  codeRequests,            \* pending fetches of /api/contract/code
  rejected,                \* handlers whose promise rejected
  nextDocId,               \* the id the backend gives its next document
  autoCount,               \* per id: requests issued by the effect
  recoveries,              \* adoptions since the chat list last changed
  turns, edits, manuals,   \* events so far (bounded)
  conversationId,          \* useState: the id of the remote record or null
  hasStateData,            \* location.state supplied a document or messages
  loadedFor,               \* conversationId of the last run of the load effect
  fetched,                 \* the ids GET /api/conversations/:id was sent for
  loadRequests,            \* pending fetches of /api/conversations/:id
  timers,                  \* pending setTimeout callbacks (scheduled saves)
  saveRequests,            \* pending POSTs of /api/conversations
  nextRecordId,            \* the id the backend gives its next record
  unsetSaves,              \* save requests sent without a conversationId
  lastSent,                \* which scheduled save the save request sent last was
  saves,                   \* saves scheduled so far (bounded)
  chatSaveConversation,    \* per pending chat request whose save is followed:
                           \* what its handler's saveConversation closed over
  codeSaveConversation,    \* the same per pending code request
  isSimulatingDeploy,      \* useState
  showDeployDialog,        \* useState: the deployment dialog is open
  deployRequests,          \* pending fetches of /api/neo/simulate_deploy
  alerts,                  \* the texts shown with alert()
  deploys,                 \* deploy simulations started so far (bounded)
  isDeploying,             \* ActionButtons useState
  deployResult,            \* ActionButtons useState
  showDeployModal,         \* ActionButtons useState
  isRecording,             \* useSpeechToText useState
  error,                   \* useSpeechToText useState
  streamRef,               \* useRef: the stream held (a position in streams) or 0
  mediaRecorderRef,        \* useRef: the recorder held (a position in recorders) or 0
  streams,                 \* the streams getUserMedia gave: tracks "live" or "ended"
  recorders,               \* the MediaRecorders constructed, with their state
  pendingStarts,           \* calls of startRecording that await getUserMedia
  mounted,                 \* the component using the hook is mounted
  starts,                  \* calls of startRecording so far (bounded)
  call,                    \* a function of the application called on its own
  result                   \* what the call returned

controller == <<currentSpec, currentCode, language, chatMessages, isGeneratingCode,
                isLoadingMessage, lastGeneratedSpecIdRef, chatRequests, codeRequests,
                rejected, nextDocId, autoCount, recoveries, turns, edits, manuals>>

\* the state of the load effect, which runs with the controller's effects
loading == <<loadedFor, loadRequests, fetched>>

closures == <<chatSaveConversation, codeSaveConversation>>

persistence == <<conversationId, hasStateData, timers, saveRequests, nextRecordId,
                 unsetSaves, lastSent, saves, closures>>

deploy == <<isSimulatingDeploy, showDeployDialog, deployRequests, alerts, deploys,
           isDeploying, deployResult, showDeployModal>>

recording == <<isRecording, error, streamRef, mediaRecorderRef, streams, recorders,
              pendingStarts, mounted, starts>>

\* what a step of the controller or of its persistence leaves alone
elsewhere == <<deploy, recording, call, result>>

vars == <<controller, loading, persistence, deploy, recording, call, result>>

RemoveAt(s, i) == [j \in 1..(Len(s) - 1) |-> IF j < i THEN s[j] ELSE s[j + 1]]

\* location.state: nothing, or the document and the two messages that
\* PrototypeView hands over (it navigates only with a document).
Handover(d, c) ==
  [spec |-> d,
   messages |-> <<ChatMessage("user", Plain("hi")), ChatMessage("assistant", c)>>]

InitialSessions ==
  { [spec |-> NullV, messages |-> <<>>],
    Handover(FullDoc(1), Prose),
    Handover(FullDoc(1), Embeds(FullDoc(1))),
    Handover(EmptyDoc(1), Embeds(FullDoc(1))),
    Handover(EmptyDoc(1), NoName(FullDoc(1))),
    Handover(EmptyDoc(1), Embeds(EmptyDoc(1))),
    Handover(PermDoc(1), Embeds(EmptyDoc(1))) }

\* no function is being followed on its own
NoCall == [fn |-> "none"]
NoResult == [returned |-> FALSE]
Returned(v) == [returned |-> TRUE, value |-> v]

\* location.state?.conversationId || null
StateConversationId(s) ==
  IF "conversationId" \in DOMAIN s THEN s.conversationId ELSE NoConversationId

\* location.state?.spec || (location.state?.messages && messages.length > 0)
HasStateData(s) == s.spec # NullV \/ Len(s.messages) > 0

\* the component as constructed from location.state s, before its effects
Mount(s) ==
  /\ currentSpec = s.spec
  /\ chatMessages = s.messages
  /\ conversationId = StateConversationId(s)
  /\ hasStateData = HasStateData(s)
  /\ loadedFor = NoConversationId
  /\ fetched = {}
  /\ loadRequests = <<>>
  /\ timers = <<>>
  /\ saveRequests = <<>>
  /\ nextRecordId = FirstRecordId
  /\ unsetSaves = 0
  /\ lastSent = 0
  /\ chatSaveConversation = <<>>
  /\ codeSaveConversation = <<>>
  /\ saves = 0
  /\ currentCode = EmptyCode
  /\ language = "python"
  /\ isGeneratingCode = FALSE
  /\ isLoadingMessage = FALSE
  /\ lastGeneratedSpecIdRef = NullId
  /\ chatRequests = <<>>
  /\ codeRequests = <<>>
  /\ rejected = {}
  /\ nextDocId = 2
  /\ autoCount = [i \in Ids |-> 0]
  /\ recoveries = 0
  /\ turns = 0
  /\ edits = 0
  /\ manuals = 0
  /\ isSimulatingDeploy = FALSE
  /\ showDeployDialog = FALSE
  /\ deployRequests = <<>>
  /\ alerts = {}
  /\ deploys = 0
  /\ isDeploying = FALSE
  /\ deployResult = NullV
  /\ showDeployModal = FALSE
  /\ isRecording = FALSE
  /\ error = "null"
  /\ streamRef = 0
  /\ mediaRecorderRef = 0
  /\ streams = <<>>
  /\ recorders = <<>>
  /\ pendingStarts = 0
  /\ mounted = TRUE
  /\ starts = 0

NoCalls == call = NoCall /\ result = NoResult

Init == NoCalls /\ \E s \in InitialSessions : Mount(s)

\* --------------------------------------------------------- the backend
\* The bodies /api/chat/message may answer with.  A document the backend
\* creates in a turn carries the fresh id; the assistant text may be
\* missing, prose, or prose with a JSON blob.
ChatResponse(spec, code, lang, agentMessage) ==
  [spec |-> spec, code |-> code, language |-> lang, agentMessage |-> agentMessage]

ChatResponses(id) ==
  { ChatResponse(FullDoc(id), Undefined, Undefined, Prose),
    ChatResponse(EmptyDoc(id), Undefined, Undefined, Undefined),
    ChatResponse(Undefined, Undefined, Undefined, Embeds(FullDoc(id))),
    ChatResponse(Undefined, Undefined, Undefined, Embeds(EmptyDoc(id))),
    ChatResponse(Undefined, ChatCode, Str("csharp"), BadJson),
    ChatResponse(NullV, NullV, NullV, Undefined) }

\* the language /api/contract/code answers with
CodeLanguages == {"python"}

\* the content of the assistant message: data.agentMessage || 'Response received'
AgentContent(m) == IF m = Undefined THEN Plain("Response received") ELSE m

CarriesDoc(data) ==
  data.spec.kind = "doc" \/ extractSpecFromMessage(AgentContent(data.agentMessage)) # NullV

\* how a request can fail: fetch rejects, or the response is not OK
Failures == {"network", "notok"}

\* ------------------------------------------------- effect conditions
\* "Hydrate spec from chat messages if incomplete": the effect adopts
HydrateCond ==
  /\ isSpecIncomplete(currentSpec)
  /\ Len(chatMessages) > 0
  /\ findLatestSpecFromMessages(chatMessages) # NullV

\* "Auto-generate code when spec changes": the effect issues a request
AutoGenerateCond ==
  /\ currentSpec # NullV
  /\ currentSpec.id # lastGeneratedSpecIdRef
  /\ ~isGeneratingCode

\* The adopted document is a freshly parsed object, so the effect runs again
\* after every adoption; the model follows MaxRecoveries of these runs.
HydrateRuns == HydrateCond /\ recoveries < MaxRecoveries

\* "Load conversation if conversationId is provided": the effect depends on
\* conversationId alone, so it runs when the id differs from the id of its
\* last run (at mount an id of null makes the run do nothing), and it
\* fetches when there is an id and location.state supplied no data
LoadDue == conversationId # loadedFor

LoadFetches == LoadDue /\ conversationId # NoConversationId /\ ~hasStateData

\* what saveConversation closes over: the values of the render that made
\* it, which a handler of that render passes on to the timer it sets.  It
\* is kept for the requests of the sessions whose saves are followed.
SaveClosure ==
  [conversationId |-> conversationId, currentSpec |-> currentSpec,
   chatMessages |-> chatMessages, currentCode |-> currentCode, language |-> language]

\* what loadConversation closes over: the values of the render it runs in
LoadClosure ==
  [conversationId |-> conversationId, currentSpec |-> currentSpec,
   chatMessages |-> chatMessages, currentCode |-> currentCode]

\* A click or a submit is handled on a render whose effects have run.
EffectsFlushed == ~(LoadDue \/ HydrateRuns \/ AutoGenerateCond)

\* ------------------------------------------------------------- ChatPanel
Inputs == {"", "  ", " hi "}
Trim(input) == IF input = " hi " THEN "hi" ELSE ""

\* mutant: the new message is put in front
PrependMessage(prev, message) == <<message>> \o prev

\* setChatMessages(prev => [...prev, message])
AppendMessage(prev, message) == Append(prev, message)

\* handleSendMessage up to its await: the user message, the flag, the request
handleSendMessage(message) ==
  /\ chatMessages' = AppendMessage(chatMessages, ChatMessage("user", Plain(message)))
  /\ isLoadingMessage' = TRUE
  /\ chatRequests' = Append(chatRequests, [message |-> message,
                                           conversationId |-> conversationId])
  /\ recoveries' = 0
  /\ turns' = turns + 1
  /\ UNCHANGED <<currentSpec, currentCode, language, isGeneratingCode,
                 lastGeneratedSpecIdRef, codeRequests, rejected, nextDocId,
                 autoCount, edits, manuals>>

\* mutant: the submit handler does not look at isLoading
SubmitGuardIgnoresLoading(input) == Trim(input) # ""

\* ChatPanel.handleSubmit: if (input.trim() && !isLoading) onSendMessage(input.trim())
SubmitGuard(input) == Trim(input) # "" /\ ~isLoadingMessage

handleSubmit(input) ==
  /\ turns < MaxTurns
  /\ EffectsFlushed
  /\ SubmitGuard(input)
  /\ handleSendMessage(Trim(input))

\* which fields of a successful chat response replace the current values
SpecProvided(data) == Truthy(data.spec)
CodeProvided(data) == data.code # Undefined
LanguageProvided(data) == Truthy(data.language)

\* mutant: the flag is cleared after the assistant message of the success
\* path only (no finally), so a later failure is the only way to clear it
ChatSucceedsKeepsFlag(i, data) ==
  /\ i \in DOMAIN chatRequests
  /\ currentSpec' = IF SpecProvided(data) THEN data.spec ELSE currentSpec
  /\ currentCode' = IF CodeProvided(data) THEN data.code ELSE currentCode
  /\ language' = IF LanguageProvided(data) THEN data.language.text ELSE language
  /\ chatMessages' =
       AppendMessage(chatMessages, ChatMessage("assistant", AgentContent(data.agentMessage)))
  /\ chatRequests' = RemoveAt(chatRequests, i)
  /\ recoveries' = 0
  /\ nextDocId' = IF CarriesDoc(data) THEN nextDocId + 1 ELSE nextDocId
  /\ UNCHANGED <<isLoadingMessage, isGeneratingCode, lastGeneratedSpecIdRef,
                 codeRequests, rejected, autoCount, turns, edits, manuals>>

\* handleSendMessage after the await, response OK
ChatSucceeds(i, data) ==
  /\ i \in DOMAIN chatRequests
  /\ currentSpec' = IF SpecProvided(data) THEN data.spec ELSE currentSpec
  /\ currentCode' = IF CodeProvided(data) THEN data.code ELSE currentCode
  /\ language' = IF LanguageProvided(data) THEN data.language.text ELSE language
  /\ chatMessages' =
       AppendMessage(chatMessages, ChatMessage("assistant", AgentContent(data.agentMessage)))
  /\ isLoadingMessage' = FALSE
  /\ chatRequests' = RemoveAt(chatRequests, i)
  /\ recoveries' = 0
  /\ nextDocId' = IF CarriesDoc(data) THEN nextDocId + 1 ELSE nextDocId
  /\ UNCHANGED <<isGeneratingCode, lastGeneratedSpecIdRef, codeRequests, rejected,
                 autoCount, turns, edits, manuals>>

ErrorContent(failure) ==
  IF failure = "notok" THEN Plain("Error: Failed to process chat message")
  ELSE Plain("Error: Failed to fetch")

\* mutant: a failed turn is dropped without a message
ChatFailsSilently(i, failure) ==
  /\ i \in DOMAIN chatRequests
  /\ isLoadingMessage' = FALSE
  /\ chatRequests' = RemoveAt(chatRequests, i)
  /\ UNCHANGED <<currentSpec, currentCode, language, chatMessages, isGeneratingCode,
                 lastGeneratedSpecIdRef, codeRequests, rejected, nextDocId,
                 autoCount, recoveries, turns, edits, manuals>>

\* handleSendMessage after the await, catch and finally
ChatFails(i, failure) ==
  /\ i \in DOMAIN chatRequests
  /\ chatMessages' =
       AppendMessage(chatMessages, ChatMessage("assistant", ErrorContent(failure)))
  /\ isLoadingMessage' = FALSE
  /\ chatRequests' = RemoveAt(chatRequests, i)
  /\ recoveries' = 0
  /\ UNCHANGED <<currentSpec, currentCode, language, isGeneratingCode,
                 lastGeneratedSpecIdRef, codeRequests, rejected, nextDocId,
                 autoCount, turns, edits, manuals>>

\* ------------------------------------------------------ code generation
\* generateCode up to its await, for a non-null document: the flag and the
\* request, which carries the (normalized) document and the conversationId
\* of the calling render
generateCode(spec) ==
  /\ isGeneratingCode' = TRUE
  /\ codeRequests' = Append(codeRequests, [specId |-> spec.id,
                                           conversationId |-> conversationId])

\* mutant: the button is disabled only while there is no document
RegenerateEnabledWhileGenerating == currentSpec # NullV

\* the "Regenerate Code" button: disabled={!currentSpec || isGeneratingCode}
RegenerateEnabled == currentSpec # NullV /\ ~isGeneratingCode

Regenerate ==
  /\ manuals < MaxManual
  /\ EffectsFlushed
  /\ RegenerateEnabled
  /\ generateCode(currentSpec)
  /\ manuals' = manuals + 1
  /\ UNCHANGED <<currentSpec, currentCode, language, chatMessages, isLoadingMessage,
                 lastGeneratedSpecIdRef, chatRequests, rejected, nextDocId,
                 autoCount, recoveries, turns, edits>>

\* generateCode after the await, response OK: setCurrentCode, setLanguage
CodeSucceeds(i, lang) ==
  /\ i \in DOMAIN codeRequests
  /\ currentCode' = GeneratedCode(codeRequests[i].specId)
  /\ language' = lang
  /\ isGeneratingCode' = FALSE
  /\ codeRequests' = RemoveAt(codeRequests, i)
  /\ UNCHANGED <<currentSpec, chatMessages, isLoadingMessage, lastGeneratedSpecIdRef,
                 chatRequests, rejected, nextDocId, autoCount, recoveries,
                 turns, edits, manuals>>

FailureText(failure) ==
  IF failure = "notok"
  THEN "## Attempting to generate code (10 attempts): Failed to generate contract code"
  ELSE "## Attempting to generate code (10 attempts): Failed to fetch"

\* mutant: the failure is reported the way a failed chat turn is, as an
\* assistant message, and the code text is left as it was
CodeFailsInChat(i, failure) ==
  /\ i \in DOMAIN codeRequests
  /\ chatMessages' =
       AppendMessage(chatMessages, ChatMessage("assistant", Plain(FailureText(failure))))
  /\ isGeneratingCode' = FALSE
  /\ codeRequests' = RemoveAt(codeRequests, i)
  /\ UNCHANGED <<currentSpec, currentCode, language, isLoadingMessage,
                 lastGeneratedSpecIdRef, chatRequests, rejected, nextDocId,
                 autoCount, recoveries, turns, edits, manuals>>

\* generateCode after the await, catch and finally
CodeFails(i, failure) ==
  /\ i \in DOMAIN codeRequests
  /\ currentCode' = Placeholder(FailureText(failure))
  /\ isGeneratingCode' = FALSE
  /\ codeRequests' = RemoveAt(codeRequests, i)
  /\ UNCHANGED <<currentSpec, language, chatMessages, isLoadingMessage,
                 lastGeneratedSpecIdRef, chatRequests, rejected, nextDocId,
                 autoCount, recoveries, turns, edits, manuals>>

\* ---------------------------------------------------------- variable edit
VariableIds == {"var1"}
InitialValues == {"absent", "100"}

\* mutant: the patch is given a document id of its own
PatchedSpecNewId(spec, variableId, value) ==
  [spec EXCEPT !.id = IF spec.id = 1 THEN 2 ELSE 1,
               !.variables =
     [k \in DOMAIN spec.variables |->
        IF spec.variables[k].id = variableId
        THEN [spec.variables[k] EXCEPT !.initialValue = value]
        ELSE spec.variables[k]]]

\* mutant: the other variables are dropped from the list
PatchedSpecAlone(spec, variableId, value) ==
  [spec EXCEPT !.variables =
     SelectSeq([k \in DOMAIN spec.variables |->
                  [spec.variables[k] EXCEPT !.initialValue = value]],
               LAMBDA v : v.id = variableId)]

\* { ...currentSpec, variables: currentSpec.variables.map(...) }
PatchedSpec(spec, variableId, value) ==
  [spec EXCEPT !.variables =
     [k \in DOMAIN spec.variables |->
        IF spec.variables[k].id = variableId
        THEN [spec.variables[k] EXCEPT !.initialValue = value]
        ELSE spec.variables[k]]]

handleVariableUpdate(variableId, value) ==
  /\ edits < MaxEdits
  /\ EffectsFlushed
  /\ currentSpec # NullV
  /\ currentSpec' = PatchedSpec(currentSpec, variableId, value)
  /\ edits' = edits + 1
  /\ UNCHANGED <<currentCode, language, chatMessages, isGeneratingCode,
                 isLoadingMessage, lastGeneratedSpecIdRef, chatRequests,
                 codeRequests, rejected, nextDocId, autoCount, recoveries,
                 turns, manuals>>

\* --------------------------------------------------------------- effects
\* The passive effects of one render, in declaration order, both reading
\* the values of that render.
RunEffects ==
  /\ LoadDue \/ HydrateRuns \/ AutoGenerateCond
  /\ loadedFor' = conversationId
  /\ loadRequests' = IF LoadFetches THEN Append(loadRequests, LoadClosure)
                                    ELSE loadRequests
  /\ fetched' = IF LoadFetches THEN fetched \cup {conversationId} ELSE fetched
  /\ IF HydrateRuns
     THEN /\ currentSpec' = findLatestSpecFromMessages(chatMessages)
          /\ recoveries' = recoveries + 1
     ELSE UNCHANGED <<currentSpec, recoveries>>
  /\ IF AutoGenerateCond
     THEN /\ lastGeneratedSpecIdRef' = currentSpec.id
          /\ generateCode(currentSpec)
          /\ autoCount' = [autoCount EXCEPT ![currentSpec.id] = @ + 1]
     ELSE UNCHANGED <<lastGeneratedSpecIdRef, isGeneratingCode, codeRequests, autoCount>>
  /\ UNCHANGED <<currentCode, language, chatMessages, isLoadingMessage,
                 chatRequests, rejected, nextDocId, turns, edits, manuals>>

\* ------------------------------------------------------------------ spec
\* a step that starts no load and whose save, if it schedules one, is not
\* followed
Quiet == UNCHANGED <<loading, persistence, elsewhere>>

Next ==
  \/ \E input \in Inputs : handleSubmit(input) /\ Quiet
  \/ \E i \in DOMAIN chatRequests, data \in ChatResponses(nextDocId) :
       ChatSucceeds(i, data) /\ Quiet
  \/ \E i \in DOMAIN chatRequests, f \in Failures : ChatFails(i, f) /\ Quiet
  \/ Regenerate /\ Quiet
  \/ \E i \in DOMAIN codeRequests, lang \in CodeLanguages : CodeSucceeds(i, lang) /\ Quiet
  \/ \E i \in DOMAIN codeRequests, f \in Failures : CodeFails(i, f) /\ Quiet
  \/ \E v \in VariableIds, x \in InitialValues : handleVariableUpdate(v, x) /\ Quiet
  \/ RunEffects /\ UNCHANGED <<persistence, elsewhere>>

Spec == Init /\ [][Next]_vars

\* a pending chat request resolves or rejects
ChatSettles ==
  \E i \in DOMAIN chatRequests :
    \/ \E data \in ChatResponses(nextDocId) : ChatSucceeds(i, data) /\ Quiet
    \/ \E f \in Failures : ChatFails(i, f) /\ Quiet

\* Spec, with every chat request eventually settling
FairSpec == Spec /\ WF_vars(ChatSettles)

\* ----------------------------------------------------------- persistence
\* the delays of the three setTimeout calls that schedule a save
ChatSaveDelay == 100
CodeSaveDelay == 500
EditSaveDelay == 1000

\* the document, messages, code and language of the body of a save;
\* the language is a string or a missing value of the response
SaveBody(specToSave, messagesToSave, codeToSave, languageToSave) ==
  [spec |-> IF Truthy(specToSave) THEN normalizeSpecForBackend(specToSave) ELSE NullV,
   messages |-> messagesToSave, code |-> codeToSave, language |-> languageToSave]

\* value !== undefined ? value : fallback
Defined(value, fallback) == IF value # Undefined THEN value ELSE fallback

\* setTimeout(() => saveConversation(...), delay): saveConversation is the
\* callback of the render the handler was called in, so the save carries
\* that render's conversationId, and that render's values where the call
\* overrides none.  MaxSaves scheduled saves are followed.
scheduleSave(delay, id, body) ==
  /\ timers' = IF saves < MaxSaves
               THEN Append(timers, [delay |-> delay, conversationId |-> id, body |-> body,
                                    scheduled |-> saves + 1])
               ELSE timers
  /\ saves' = IF saves < MaxSaves THEN saves + 1 ELSE saves
  /\ UNCHANGED <<conversationId, hasStateData, saveRequests, nextRecordId, unsetSaves,
                 lastSent>>

\* a timer fires no later than a timer set after it with the same or a
\* longer delay
MayFire(k) == \A j \in 1..(k - 1) : timers[j].delay > timers[k].delay

\* saveConversation up to its await: the body's conversationId is
\* conversationId || undefined
TimerFires(k) ==
  /\ k \in DOMAIN timers
  /\ MayFire(k)
  /\ saveRequests' = Append(saveRequests, [conversationId |-> timers[k].conversationId,
                                           body |-> timers[k].body])
  /\ unsetSaves' = IF timers[k].conversationId = NoConversationId
                   THEN unsetSaves + 1 ELSE unsetSaves
  /\ lastSent' = timers[k].scheduled
  /\ timers' = RemoveAt(timers, k)
  /\ UNCHANGED <<conversationId, hasStateData, nextRecordId, saves, closures>>
  /\ UNCHANGED <<controller, loading, elsewhere>>

\* POST /api/conversations: a request without an id creates a record
SavedId(request) ==
  IF request.conversationId = NoConversationId THEN nextRecordId
  ELSE request.conversationId

\* saveConversation after the await, response OK:
\* if (!conversationId && data.conversation?.id) setConversationId(...)
SaveSucceeds(i) ==
  /\ i \in DOMAIN saveRequests
  /\ conversationId' = IF saveRequests[i].conversationId = NoConversationId
                       THEN SavedId(saveRequests[i]) ELSE conversationId
  /\ nextRecordId' = IF saveRequests[i].conversationId = NoConversationId
                     THEN nextRecordId + 1 ELSE nextRecordId
  /\ saveRequests' = RemoveAt(saveRequests, i)
  /\ UNCHANGED <<hasStateData, timers, unsetSaves, lastSent, saves, closures>>
  /\ UNCHANGED <<controller, loading, elsewhere>>

\* saveConversation after the await, response not OK or fetch rejected
SaveFails(i, failure) ==
  /\ i \in DOMAIN saveRequests
  /\ saveRequests' = RemoveAt(saveRequests, i)
  /\ UNCHANGED <<conversationId, hasStateData, timers, nextRecordId, unsetSaves,
                 lastSent, saves, closures>>
  /\ UNCHANGED <<controller, loading, elsewhere>>

\* the records GET /api/conversations/:id may answer with
ConversationRecord(spec, messages, code, lang) ==
  [spec |-> spec, messages |-> messages, code |-> code, language |-> lang]

SavedMessages ==
  <<ChatMessage("user", Plain("saved")), ChatMessage("assistant", Prose)>>

ConversationRecords ==
  { ConversationRecord(FullDoc(1), SavedMessages, CodeText("saved", 1), Str("csharp")),
    ConversationRecord(NullV, <<>>, Str(""), Undefined) }

\* loadConversation after the await, response OK: the conditions read the
\* values the effect closed over
LoadSucceeds(i, conv) ==
  /\ i \in DOMAIN loadRequests
  /\ currentSpec' = IF Truthy(conv.spec) /\ ~Truthy(loadRequests[i].currentSpec)
                    THEN conv.spec ELSE currentSpec
  /\ chatMessages' = IF Len(conv.messages) > 0 /\ Len(loadRequests[i].chatMessages) = 0
                     THEN conv.messages ELSE chatMessages
  /\ currentCode' = IF Truthy(conv.code) /\ ~Truthy(loadRequests[i].currentCode)
                    THEN conv.code ELSE currentCode
  /\ language' = IF Truthy(conv.language) THEN conv.language.text ELSE language
  /\ recoveries' = IF chatMessages' = chatMessages THEN recoveries ELSE 0
  /\ loadRequests' = RemoveAt(loadRequests, i)
  /\ UNCHANGED <<isGeneratingCode, isLoadingMessage, lastGeneratedSpecIdRef,
                 chatRequests, codeRequests, rejected, nextDocId, autoCount,
                 turns, edits, manuals>>
  /\ UNCHANGED <<loadedFor, fetched, persistence, elsewhere>>

\* loadConversation after the await, response not OK or fetch rejected
LoadFails(i, failure) ==
  /\ i \in DOMAIN loadRequests
  /\ loadRequests' = RemoveAt(loadRequests, i)
  /\ UNCHANGED <<controller, loadedFor, fetched, persistence, elsewhere>>

\* the handlers together with the saves they schedule
\* saveConversation(updatedSpec, updatedMessages, updatedCode, updatedLanguage)
ChatSucceedsAndSaves(i, data) ==
  /\ ChatSucceeds(i, data)
  /\ LET render == chatSaveConversation[i]
     IN scheduleSave(ChatSaveDelay, render.conversationId,
                     SaveBody(Defined(data.spec, render.currentSpec), chatMessages',
                              Defined(data.code, render.currentCode),
                              Defined(data.language, Str(render.language))))
  /\ chatSaveConversation' = RemoveAt(chatSaveConversation, i)
  /\ UNCHANGED <<codeSaveConversation, loading, elsewhere>>

\* saveConversation(undefined, updatedMessages)
ChatFailsAndSaves(i, failure) ==
  /\ ChatFails(i, failure)
  /\ LET render == chatSaveConversation[i]
     IN scheduleSave(ChatSaveDelay, render.conversationId,
                     SaveBody(render.currentSpec, chatMessages', render.currentCode,
                              Str(render.language)))
  /\ chatSaveConversation' = RemoveAt(chatSaveConversation, i)
  /\ UNCHANGED <<codeSaveConversation, loading, elsewhere>>

\* saveConversation()
CodeSucceedsAndSaves(i, lang) ==
  /\ CodeSucceeds(i, lang)
  /\ LET render == codeSaveConversation[i]
     IN scheduleSave(CodeSaveDelay, render.conversationId,
                     SaveBody(render.currentSpec, render.chatMessages,
                              render.currentCode, Str(render.language)))
  /\ codeSaveConversation' = RemoveAt(codeSaveConversation, i)
  /\ UNCHANGED <<chatSaveConversation, loading, elsewhere>>

\* saveConversation(updatedSpec)
handleVariableUpdateAndSave(variableId, value) ==
  /\ handleVariableUpdate(variableId, value)
  /\ scheduleSave(EditSaveDelay, conversationId,
                  SaveBody(currentSpec', chatMessages, currentCode, Str(language)))
  /\ UNCHANGED <<closures, loading, elsewhere>>

\* the saving variables that a step which schedules no save leaves alone
NoSave ==
  UNCHANGED <<conversationId, hasStateData, timers, saveRequests, nextRecordId,
              unsetSaves, lastSent, saves>>

\* a submit, whose handleSendMessage holds the saveConversation of its render
handleSubmitAndHold(input) ==
  /\ handleSubmit(input)
  /\ chatSaveConversation' = IF Len(chatRequests') > Len(chatRequests)
                             THEN Append(chatSaveConversation, SaveClosure)
                             ELSE chatSaveConversation
  /\ NoSave
  /\ UNCHANGED <<codeSaveConversation, loading, elsewhere>>

\* the effects, whose generateCode holds the saveConversation of its render
RunEffectsAndHold ==
  /\ RunEffects
  /\ codeSaveConversation' = IF Len(codeRequests') > Len(codeRequests)
                             THEN Append(codeSaveConversation, SaveClosure)
                             ELSE codeSaveConversation
  /\ NoSave
  /\ UNCHANGED <<chatSaveConversation, elsewhere>>

\* a failed generation schedules no save
CodeFailsAndDrops(i, failure) ==
  /\ CodeFails(i, failure)
  /\ codeSaveConversation' = RemoveAt(codeSaveConversation, i)
  /\ NoSave
  /\ UNCHANGED <<chatSaveConversation, loading, elsewhere>>

\* location.state of the sessions whose persistence is followed
SessionStates ==
  { [spec |-> NullV, messages |-> <<>>],
    [spec |-> NullV, messages |-> <<>>, conversationId |-> SuppliedId],
    Handover(FullDoc(1), Prose) }

SessionInit == NoCalls /\ \E s \in SessionStates : Mount(s)

\* the chat responses of these sessions
SessionResponses(id) ==
  { ChatResponse(FullDoc(id), Undefined, Undefined, Prose),
    ChatResponse(Undefined, ChatCode, Str("csharp"), BadJson) }

SessionNext ==
  \/ \E input \in Inputs : turns < MaxSessionTurns /\ handleSubmitAndHold(input)
  \/ \E i \in DOMAIN chatRequests, data \in SessionResponses(nextDocId) :
       ChatSucceedsAndSaves(i, data)
  \/ \E i \in DOMAIN chatRequests, f \in Failures : ChatFailsAndSaves(i, f)
  \/ \E i \in DOMAIN codeRequests, lang \in CodeLanguages : CodeSucceedsAndSaves(i, lang)
  \/ \E i \in DOMAIN codeRequests, f \in Failures : CodeFailsAndDrops(i, f)
  \/ \E v \in VariableIds : handleVariableUpdateAndSave(v, "100")
  \/ RunEffectsAndHold
  \/ \E k \in DOMAIN timers : TimerFires(k)
  \/ \E i \in DOMAIN saveRequests : SaveSucceeds(i)
  \/ \E i \in DOMAIN saveRequests, f \in Failures : SaveFails(i, f)
  \/ \E i \in DOMAIN loadRequests, conv \in ConversationRecords : LoadSucceeds(i, conv)
  \/ \E i \in DOMAIN loadRequests, f \in Failures : LoadFails(i, f)

SessionSpec == SessionInit /\ [][SessionNext]_vars

\* ------------------------------------------------------ deploy simulation
\* handleSimulateDeploy of DevelopmentView and its two callers: the "Run
\* Deployment Simulation" button of the deployment dialog, and
\* ActionButtons.handleDeploy, which receives it as onSimulateDeploy (and
\* the current document as spec).
SimulateDeployResponse(ok, neoResponse) ==
  [ok |-> ok, action |-> "simulate_deploy", neoResponse |-> neoResponse]

\* the bodies /api/neo/simulate_deploy may answer with
DeployResponses ==
  { SimulateDeployResponse(TRUE, [txid |-> "0x01"]),
    SimulateDeployResponse(FALSE, [error |-> <<"vm fault">>]) }

\* what the promise of handleSimulateDeploy rejects with: the Error thrown
\* for a response that is not OK, or the TypeError of a failed fetch
DeployError(failure) ==
  IF failure = "notok"
  THEN [name |-> "Error", message |-> "Failed to simulate deployment"]
  ELSE [name |-> "TypeError", message |-> "Failed to fetch"]

\* String(error)
ErrorString(e) == <<e.name, ": ", e.message>>

\* handleSimulateDeploy up to its await
handleSimulateDeploy(caller) ==
  /\ deploys < MaxDeploys
  /\ isSimulatingDeploy' = TRUE
  /\ deployRequests' = Append(deployRequests, [caller |-> caller])
  /\ deploys' = deploys + 1

\* the "Deploy" button: disabled={!currentSpec || isSimulatingDeploy}
OpenDeployDialog ==
  /\ currentSpec # NullV
  /\ ~isSimulatingDeploy
  /\ ~showDeployDialog
  /\ showDeployDialog' = TRUE
  /\ UNCHANGED <<isSimulatingDeploy, deployRequests, alerts, deploys,
                 isDeploying, deployResult, showDeployModal>>
  /\ UNCHANGED <<controller, loading, persistence, recording, call, result>>

CloseDeployDialog ==
  /\ showDeployDialog
  /\ showDeployDialog' = FALSE
  /\ UNCHANGED <<isSimulatingDeploy, deployRequests, alerts, deploys,
                 isDeploying, deployResult, showDeployModal>>
  /\ UNCHANGED <<controller, loading, persistence, recording, call, result>>

\* the dialog's button: disabled={isSimulatingDeploy}
RunDeploymentSimulation ==
  /\ showDeployDialog
  /\ ~isSimulatingDeploy
  /\ handleSimulateDeploy("dialog")
  /\ UNCHANGED <<showDeployDialog, alerts, isDeploying, deployResult,
                 showDeployModal>>
  /\ UNCHANGED <<controller, loading, persistence, recording, call, result>>

\* ActionButtons.handleDeploy up to its await: disabled={!spec || isDeploying}
handleDeploy ==
  /\ currentSpec # NullV
  /\ ~isDeploying
  /\ isDeploying' = TRUE
  /\ deployResult' = NullV
  /\ handleSimulateDeploy("ActionButtons")
  /\ UNCHANGED <<showDeployDialog, alerts, showDeployModal>>
  /\ UNCHANGED <<controller, loading, persistence, recording, call, result>>

\* the response is OK: handleSimulateDeploy returns the body (finally clears
\* the flag) and the caller goes on after its await
DeploySucceeds(i, data) ==
  /\ i \in DOMAIN deployRequests
  /\ isSimulatingDeploy' = FALSE
  /\ deployRequests' = RemoveAt(deployRequests, i)
  /\ IF deployRequests[i].caller = "ActionButtons"
     THEN /\ deployResult' = data
          /\ showDeployModal' = TRUE
          /\ isDeploying' = FALSE
          /\ UNCHANGED alerts
     ELSE /\ alerts' = alerts \cup {<<"Deployment simulation completed!">>}
          /\ UNCHANGED <<deployResult, showDeployModal, isDeploying>>
  /\ UNCHANGED <<showDeployDialog, deploys>>
  /\ UNCHANGED <<controller, loading, persistence, recording, call, result>>

\* mutant: handleSimulateDeploy catches the failure and returns nothing, so
\* its caller goes on as after a success
DeployFailsSwallowed(i, failure) ==
  /\ i \in DOMAIN deployRequests
  /\ isSimulatingDeploy' = FALSE
  /\ deployRequests' = RemoveAt(deployRequests, i)
  /\ IF deployRequests[i].caller = "ActionButtons"
     THEN /\ deployResult' = Undefined
          /\ showDeployModal' = TRUE
          /\ isDeploying' = FALSE
          /\ UNCHANGED alerts
     ELSE /\ alerts' = alerts \cup {<<"Deployment simulation completed!">>}
          /\ UNCHANGED <<deployResult, showDeployModal, isDeploying>>
  /\ UNCHANGED <<showDeployDialog, deploys>>
  /\ UNCHANGED <<controller, loading, persistence, recording, call, result>>

\* the response is not OK or fetch rejected: handleSimulateDeploy has no
\* catch, so finally clears the flag and the promise rejects into the catch
\* of the caller
DeployFails(i, failure) ==
  /\ i \in DOMAIN deployRequests
  /\ isSimulatingDeploy' = FALSE
  /\ deployRequests' = RemoveAt(deployRequests, i)
  /\ rejected' = rejected \cup {"handleSimulateDeploy"}
  /\ IF deployRequests[i].caller = "ActionButtons"
     THEN /\ deployResult' =
               SimulateDeployResponse(FALSE, [error |-> ErrorString(DeployError(failure))])
          /\ showDeployModal' = TRUE
          /\ isDeploying' = FALSE
          /\ UNCHANGED alerts
     ELSE /\ alerts' = alerts \cup
               {<<"Deployment simulation failed: ", DeployError(failure).message>>}
          /\ UNCHANGED <<deployResult, showDeployModal, isDeploying>>
  /\ UNCHANGED <<showDeployDialog, deploys>>
  /\ UNCHANGED <<currentSpec, currentCode, language, chatMessages, isGeneratingCode,
                 isLoadingMessage, lastGeneratedSpecIdRef, chatRequests, codeRequests,
                 nextDocId, autoCount, recoveries, turns, edits, manuals>>
  /\ UNCHANGED <<loading, persistence, recording, call, result>>

\* the result dialog of ActionButtons: onOpenChange, Close
CloseDeployModal ==
  /\ showDeployModal
  /\ showDeployModal' = FALSE
  /\ UNCHANGED <<isSimulatingDeploy, showDeployDialog, deployRequests, alerts,
                 deploys, isDeploying, deployResult>>
  /\ UNCHANGED <<controller, loading, persistence, recording, call, result>>

DeployNext ==
  \/ OpenDeployDialog
  \/ CloseDeployDialog
  \/ RunDeploymentSimulation
  \/ handleDeploy
  \/ \E i \in DOMAIN deployRequests, data \in DeployResponses : DeploySucceeds(i, data)
  \/ \E i \in DOMAIN deployRequests, f \in Failures : DeployFails(i, f)
  \/ CloseDeployModal

DeploySpec == Init /\ [][DeployNext]_vars

\* ============================================================== claims

\* C1: for any document id the auto-generate effect issues at most one
\* request in a session.
AutoOncePerId == \A id \in Ids : autoCount[id] <= 1

\* C2: a variable edit keeps the document id and so never makes the
\* auto-generate effect issue a request: the edit step issues none and leaves
\* the effect's condition as it was, with or without a generation in flight;
\* once code was generated for the current id (the marker is that id), the
\* marker is still that id after the edit and the effect has nothing to do.
EditStep == \E v \in VariableIds, x \in InitialValues : handleVariableUpdate(v, x)

GeneratedForCurrent == currentSpec # NullV /\ currentSpec.id = lastGeneratedSpecIdRef

EditNeverTriggersGeneration ==
  [][EditStep =>
       /\ currentSpec'.id = currentSpec.id
       /\ UNCHANGED <<codeRequests, autoCount, lastGeneratedSpecIdRef>>
       /\ AutoGenerateCond' = AutoGenerateCond
       /\ GeneratedForCurrent => (GeneratedForCurrent' /\ ~AutoGenerateCond')]_vars

\* C2 witness: an edit was committed to the document code was generated for
EditAfterGeneration ==
  /\ edits > 0
  /\ GeneratedForCurrent
  /\ autoCount[currentSpec.id] = 1
  /\ currentCode = GeneratedCode(currentSpec.id)
  /\ Len(currentSpec.variables) > 0
  /\ currentSpec.variables[1].initialValue = "100"

\* C3: a successful code-generation response changes code and language only
\* if the request was issued for the id of the document that is current when
\* the response arrives.
StaleCodeResponseDiscarded ==
  [][\A i \in DOMAIN codeRequests :
       ((\E lang \in CodeLanguages : CodeSucceeds(i, lang))
        /\ (currentSpec = NullV \/ codeRequests[i].specId # currentSpec.id))
       => UNCHANGED <<currentCode, language>>]_vars

\* C4: document completeness recovery.  When the recovery effect runs with
\* a non-empty chat list, an incomplete current document (null, or all four
\* sections empty) and some assistant message holding an extractable
\* document, the effect is due and the current document becomes the one
\* extracted from the most recent such message; when the current document is
\* complete, the effects never replace it.
RecoverableAt(msgs) ==
  {k \in DOMAIN msgs : msgs[k].role = "assistant"
                       /\ msgs[k].content.json = "ok"
                       /\ msgs[k].content.hasName
                       /\ msgs[k].content.hasVars}

MostRecentRecoverable(msgs) ==
  msgs[CHOOSE k \in RecoverableAt(msgs) : \A j \in RecoverableAt(msgs) : j <= k].content.doc

AllSectionsEmpty(d) ==
  \/ d = NullV
  \/ /\ d.variables = <<>>
     /\ d.methods = <<>>
     /\ d.events = <<>>
     /\ d.permissions = <<>>

RecoveryDue ==
  /\ AllSectionsEmpty(currentSpec)
  /\ chatMessages # <<>>
  /\ RecoverableAt(chatMessages) # {}

RecoveryAdoptsLatest ==
  /\ [](RecoveryDue /\ recoveries < MaxRecoveries => ENABLED RunEffects)
  /\ [][RunEffects =>
          IF RecoveryDue
          THEN recoveries < MaxRecoveries =>
                 currentSpec' = MostRecentRecoverable(chatMessages)
          ELSE currentSpec' = currentSpec]_vars

\* C4 witness: after a chat turn the document of the latest assistant message
\* was adopted over an earlier recoverable one
RecoveredFromLatest ==
  /\ recoveries = 1
  /\ turns > 0
  /\ currentSpec # NullV
  /\ currentSpec.id > 1
  /\ ~isSpecIncomplete(currentSpec)
  /\ chatMessages[Len(chatMessages)].content = Embeds(currentSpec)
  /\ \E k \in 1..(Len(chatMessages) - 1) :
       extractSpecFromMessage(chatMessages[k].content) \notin {NullV, currentSpec}

\* C5: document recovery does not loop.  For a chat list that has stopped
\* changing the recovery effect adopts a bounded number of times and then
\* has nothing left to adopt: it is never the case that, after as many
\* consecutive adoptions as the model follows, the effect's condition still
\* holds.
RecoveryQuiesces == ~(recoveries = MaxRecoveries /\ HydrateCond)

\* C6: a chat turn appends exactly two messages, the user message when the
\* turn starts and one assistant message when it completes; no step changes,
\* removes or reorders a message already in the conversation, so the list
\* before a step is a prefix of the list after it.
TurnStarts == turns' = turns + 1
TurnCompletes == Len(chatRequests') < Len(chatRequests)

ChatAppendOnly ==
  /\ [](Len(chatMessages) + Len(chatRequests) - 2 * turns \in {0, 2})
  /\ [][/\ Len(chatMessages') >= Len(chatMessages)
        /\ SubSeq(chatMessages', 1, Len(chatMessages)) = chatMessages
        /\ TurnStarts =>
             /\ Len(chatMessages') = Len(chatMessages) + 1
             /\ chatMessages'[Len(chatMessages')].role = "user"
             /\ \E input \in Inputs :
                  /\ Trim(input) # ""
                  /\ chatMessages'[Len(chatMessages')].content = Plain(Trim(input))
        /\ TurnCompletes =>
             /\ Len(chatMessages') = Len(chatMessages) + 1
             /\ chatMessages'[Len(chatMessages')].role = "assistant"
        /\ ~TurnStarts /\ ~TurnCompletes => chatMessages' = chatMessages]_vars

\* C6 witness: two turns completed on top of a handed-over conversation
TwoTurnsAppended ==
  /\ turns = 2
  /\ chatRequests = <<>>
  /\ Len(chatMessages) = 6
  /\ chatMessages[3].role = "user" /\ chatMessages[4].role = "assistant"
  /\ chatMessages[5].role = "user" /\ chatMessages[6].role = "assistant"

\* C7: on a successful chat response the current document, code and language
\* are replaced only by a field the response provides; a field that is
\* omitted or carries no value (null) leaves the current value as it was.
ResponseKeepsMissingFields ==
  [][\A i \in DOMAIN chatRequests, data \in ChatResponses(nextDocId) :
       ChatSucceeds(i, data) =>
         /\ data.spec \in {Undefined, NullV} => currentSpec' = currentSpec
         /\ data.code \in {Undefined, NullV} => currentCode' = currentCode
         /\ data.language \in {Undefined, NullV} => language' = language]_vars

\* C8: a failed chat turn appends exactly one assistant message describing
\* the failure, right after the user message of the turn; the document, the
\* code and the language are unchanged; the request is not sent again; and
\* the promise of handleSendMessage does not reject.
ErrorTexts == {"Error: Failed to process chat message", "Error: Failed to fetch"}

ChatFailureAbsorbed ==
  [][\A i \in DOMAIN chatRequests, f \in Failures :
       ChatFails(i, f) =>
         /\ chatMessages[Len(chatMessages)].role = "user"
         /\ Len(chatMessages') = Len(chatMessages) + 1
         /\ SubSeq(chatMessages', 1, Len(chatMessages)) = chatMessages
         /\ chatMessages'[Len(chatMessages')].role = "assistant"
         /\ chatMessages'[Len(chatMessages')].content.text \in ErrorTexts
         /\ UNCHANGED <<currentSpec, currentCode, language>>
         /\ Len(chatRequests') = Len(chatRequests) - 1
         /\ "handleSendMessage" \notin rejected']_vars

\* C8 witness: a turn has failed and its error message ends the conversation
TurnFailed ==
  /\ chatMessages # <<>>
  /\ chatMessages[Len(chatMessages)].role = "assistant"
  /\ chatMessages[Len(chatMessages)].content.text \in ErrorTexts
  /\ chatRequests = <<>>

\* C9: isLoadingMessage is true exactly while a chat request is in flight,
\* and, every request settling, a flag that is true becomes false again
\* (after a success as after a failure).
LoadingFlagTracksRequest ==
  /\ [](isLoadingMessage <=> chatRequests # <<>>)
  /\ (isLoadingMessage ~> ~isLoadingMessage)

\* C9 witness: the flag is clear again after a turn that succeeded and a turn
\* that failed
FlagClearedBothWays ==
  /\ ~isLoadingMessage
  /\ turns = 2
  /\ \E k \in DOMAIN chatMessages : chatMessages[k].content.text \in ErrorTexts
  /\ \E k \in DOMAIN chatMessages : chatMessages[k] = ChatMessage("assistant", Plain("Response received"))

\* C10: at most one chat turn is in flight: while isLoadingMessage is true no
\* turn starts, so no user message is appended and no request is sent until
\* the pending turn has completed.
OneChatTurnInFlight ==
  /\ [](Len(chatRequests) <= 1)
  /\ [][isLoadingMessage =>
          /\ turns' = turns
          /\ Len(chatRequests') <= Len(chatRequests)
          /\ Len(chatMessages') > Len(chatMessages) =>
               chatMessages'[Len(chatMessages')].role = "assistant"]_vars

\* C10 witness: a turn is pending while the session may still start another
SecondTurnHeldBack ==
  /\ isLoadingMessage
  /\ Len(chatRequests) = 1
  /\ turns < MaxTurns
  /\ EffectsFlushed

\* C11: in a session that starts without a conversation id the first save
\* creates the record and every later save carries its id: at most one save
\* request is sent without a conversationId, the backend creates at most one
\* record for the session, and conversationId, once set, never changes.
OneRecordPerSession ==
  /\ [](unsetSaves <= 1)
  /\ [](nextRecordId <= FirstRecordId + 1)
  /\ [][conversationId # NoConversationId => conversationId' = conversationId]_vars

\* C12: when the fetched record is applied, the loaded document, messages and
\* code replace the local value only if that value is still unset (null
\* document, empty message list, empty code) at the moment of application, so
\* nothing done locally while the fetch was in flight is overwritten.
HydrationFillsUnsetOnly ==
  [][\A i \in DOMAIN loadRequests, conv \in ConversationRecords :
       LoadSucceeds(i, conv) =>
         /\ currentSpec # NullV => currentSpec' = currentSpec
         /\ chatMessages # <<>> => chatMessages' = chatMessages
         /\ Truthy(currentCode) => currentCode' = currentCode]_vars

\* C13: handleSimulateDeploy sets isSimulatingDeploy when it starts and
\* clears it when the request settles, on success and on failure; the flag is
\* never true with no request pending; on a network error or a response that
\* is not OK its promise rejects, and ActionButtons.handleDeploy turns the
\* rejection into a displayed result with ok = false and the error text in
\* neoResponse.error, with isDeploying false again; the dialog's button
\* turns it into an alert, so the rejection always reaches a catch.
DeployStarts == deploys' = deploys + 1

DeployErrorStrings ==
  { <<"Error", ": ", "Failed to simulate deployment">>,
    <<"TypeError", ": ", "Failed to fetch">> }

PlaceholderTexts ==
  { "## Attempting to generate code (10 attempts): Failed to generate contract code",
    "## Attempting to generate code (10 attempts): Failed to fetch" }

CodeFailureAbsorbed ==
  /\ [][\A i \in DOMAIN codeRequests, f \in Failures :
          CodeFails(i, f) =>
            /\ currentCode'.kind = "string"
            /\ currentCode'.text \in PlaceholderTexts
            /\ UNCHANGED <<currentSpec, chatMessages>>
            /\ "generateCode" \notin rejected'
            /\ isGeneratingCode /\ ~isGeneratingCode']_vars
  /\ [][\A i \in DOMAIN codeRequests, lang \in CodeLanguages :
          CodeSucceeds(i, lang) => isGeneratingCode /\ ~isGeneratingCode']_vars

\* C14 witness: a generation has failed for the current document, whose
\* placeholder is shown with the controller idle again
GenerationFailed ==
  /\ currentSpec # NullV
  /\ lastGeneratedSpecIdRef = currentSpec.id
  /\ currentCode.kind = "string"
  /\ currentCode.text \in PlaceholderTexts
  /\ ~isGeneratingCode
  /\ codeRequests = <<>>

\* ------------------------------------------------------ useSpeechToText.ts
\* The hook's capture of the microphone.  The chunks recorded and their
\* transcription hold no stream and are left out.
\* stopRecording, on the refs of the hook
stopRecording ==
  /\ recorders' = IF mediaRecorderRef # 0 /\ recorders[mediaRecorderRef].state # "inactive"
                  THEN [recorders EXCEPT ![mediaRecorderRef].state = "inactive"]
                  ELSE recorders
  /\ streams' = IF streamRef # 0 THEN [streams EXCEPT ![streamRef] = "ended"] ELSE streams
  /\ streamRef' = 0
  /\ isRecording' = FALSE
  /\ UNCHANGED <<error, mediaRecorderRef, pendingStarts, starts>>

\* SpeechToTextButton.handleClick while isRecording is false: startRecording
\* runs up to its await of getUserMedia
ClickStart ==
  /\ mounted
  /\ ~isRecording
  /\ starts < MaxStarts
  /\ starts' = starts + 1
  /\ error' = "null"
  /\ pendingStarts' = pendingStarts + 1
  /\ UNCHANGED <<isRecording, streamRef, mediaRecorderRef, streams, recorders, mounted>>

\* SpeechToTextButton.handleClick while isRecording is true
ClickStop ==
  /\ mounted
  /\ isRecording
  /\ stopRecording
  /\ UNCHANGED mounted

\* getUserMedia resolves and startRecording runs to its end: the stream is
\* kept in streamRef, then the MediaRecorder is constructed and started, or
\* its constructor throws and the catch block runs
GetUserMediaResolves(constructs) ==
  /\ pendingStarts > 0
  /\ pendingStarts' = pendingStarts - 1
  /\ streams' = Append(streams, "live")
  /\ streamRef' = Len(streams) + 1
  /\ IF constructs
     THEN /\ recorders' = Append(recorders, [stream |-> Len(streams) + 1, state |-> "recording"])
          /\ mediaRecorderRef' = Len(recorders) + 1
          /\ isRecording' = TRUE
          /\ UNCHANGED error
     ELSE /\ error' = "NotSupportedError"
          /\ isRecording' = FALSE
          /\ UNCHANGED <<recorders, mediaRecorderRef>>
  /\ UNCHANGED <<mounted, starts>>

\* getUserMedia rejects: the catch block of startRecording
GetUserMediaRejects ==
  /\ pendingStarts > 0
  /\ pendingStarts' = pendingStarts - 1
  /\ error' = "Permission denied"
  /\ isRecording' = FALSE
  /\ UNCHANGED <<streamRef, mediaRecorderRef, streams, recorders, mounted, starts>>

\* the cleanup of the hook's effect
Unmount ==
  /\ mounted
  /\ mounted' = FALSE
  /\ stopRecording

RecordingNext ==
  \/ ClickStart /\ UNCHANGED <<controller, loading, persistence, deploy, call, result>>
  \/ ClickStop /\ UNCHANGED <<controller, loading, persistence, deploy, call, result>>
  \/ \E constructs \in BOOLEAN :
       GetUserMediaResolves(constructs)
         /\ UNCHANGED <<controller, loading, persistence, deploy, call, result>>
  \/ GetUserMediaRejects /\ UNCHANGED <<controller, loading, persistence, deploy, call, result>>
  \/ Unmount /\ UNCHANGED <<controller, loading, persistence, deploy, call, result>>

RecordingInit == NoCalls /\ Mount([spec |-> NullV, messages |-> <<>>])

RecordingSpec == RecordingInit /\ [][RecordingNext]_vars

\* ------------------------------------------- functions called on their own
\* JSON texts, written as JSON.stringify and the assistant write them
Quoted(w) == <<"\"", w, "\"">>
Field(key, value) == Quoted(key) \o <<":", " ">> \o value

RECURSIVE Joined(_)
Joined(parts) ==
  IF parts = <<>> THEN <<>>
  ELSE IF Len(parts) = 1 THEN parts[1]
  ELSE parts[1] \o <<",", " ">> \o Joined(Tail(parts))

ObjectText(fields) == <<"{">> \o Joined(fields) \o <<"}">>

\* texts of a value for metadata.name
NameTexts == {Quoted("TokenX"), <<"\"", "\"">>, <<"0">>, <<"100">>, <<"null">>, <<"false">>}

\* the brace regions of the messages handed to extractSpecFromMessage
SpecTexts ==
  { ObjectText(<<Field("metadata", ObjectText(<<Field("name", n)>>)),
                 Field("variables", <<"[", "]">>)>>) : n \in NameTexts }
  \cup
  { ObjectText(<<Field("variables", <<"[", "]">>)>>),
    ObjectText(<<Field("metadata", <<"{", "}">>), Field("variables", <<"[", "]">>)>>),
    ObjectText(<<Field("metadata", Quoted("m")), Field("variables", <<"[", "]">>)>>),
    ObjectText(<<Field("metadata", <<"null">>), Field("variables", <<"[", "]">>)>>),
    ObjectText(<<Field("metadata", ObjectText(<<Field("name", Quoted("TokenX"))>>))>>),
    ObjectText(<<Field("metadata", ObjectText(<<Field("name", Quoted("TokenX"))>>)),
                 Field("variables", <<"null">>)>>),
    ObjectText(<<Field("variables", <<"[", "{", "}", "]">>),
                 Field("metadata", ObjectText(<<Field("name", Quoted("TokenX")),
                                                Field("name", Quoted("TokenY"))>>))>>),
    <<"{", "\n", "}">>,
    <<"{", "\"", "metadata", "\"", ":", "}">>,
    <<"{", "not", " ", "json", "}">>,
    <<"}", " ", "{">>,
    <<"no", " ", "braces">> }

BeforeTexts ==
  { <<>>, <<"Here", " ", "it", " ", "is", ":", "\n">>, <<Fence, "json", "\n">>,
    <<Fence, "\n">>, <<"{", " ">>, <<"[">> }

AfterTexts ==
  { <<>>, <<"\n", Fence>>, <<"\n", Fence, "\n", "Done", ".">>, <<" ", "}">>, <<"]">> }

MessageTexts ==
  {b \o t \o a : b \in BeforeTexts, t \in SpecTexts, a \in AfterTexts}

ExtractCalls == {[fn |-> "extractSpecFromMessage", content |-> t] : t \in MessageTexts}

\* the message lists handed to findLatestSpecFromMessages
NamedSpecText(name) ==
  ObjectText(<<Field("metadata", ObjectText(<<Field("name", Quoted(name))>>)),
               Field("variables", <<"[", "]">>)>>)

ListedContents ==
  { Read(<<"no", " ", "braces">>),
    Read(ObjectText(<<Field("variables", <<"[", "]">>)>>)),
    Read(<<Fence, "json", "\n">> \o NamedSpecText("TokenX") \o <<"\n", Fence>>),
    Read(<<"Updated", ":", " ">> \o NamedSpecText("TokenY")) }

ListedMessages ==
  {ChatMessage(role, c) : role \in {"user", "assistant"}, c \in ListedContents}

MessageLists == UNION {[1..n -> ListedMessages] : n \in 0..MaxMessages}

FindLatestCalls == {[fn |-> "findLatestSpecFromMessages", messages |-> m] : m \in MessageLists}

\* the documents laid out: up to MaxItems items in each section, with ids
\* unique within a section and shared between sections
ItemNames == <<"i1", "i2", "i3", "i4", "i5", "i6", "i7", "i8">>
Items(n) == SubSeq(ItemNames, 1, n)

LaidOutSpecs ==
  { ContractSpec(1, [i \in 1..nv |-> Variable(ItemNames[i], "absent")],
                 Items(nm), Items(ne), Items(np)) :
      nv \in 0..MaxItems, nm \in 0..MaxItems, ne \in 0..MaxItems, np \in 0..1 }

LayoutCalls == {[fn |-> "nodesAndEdges", spec |-> d] : d \in LaidOutSpecs \cup {NullV}}

\* the texts committed in the editors
EditTexts ==
  { <<>>, <<" ">>, <<" ", "\n", " ">>,
    <<"100">>, <<" ", "100", " ">>, <<"0">>, <<"true">>, <<"false">>, <<"null">>,
    Quoted("hello"), <<"\"", "\"">>, <<" ", "\"", "100", "\"">>,
    <<"0xABC123">>, <<"hello">>, <<" ", "hello", " ", "world", " ">>,
    ObjectText(<<Field("a", <<"100">>)>>), <<"{", " ", "}", " ">>, <<"[", "100", ",", "true", "]">>,
    <<"{", "a", "}">>, <<"100", " ", "100">>, <<"\"", "open">>, <<"[", "100">> }

EditCalls ==
  {[fn |-> f, text |-> t] : f \in {"handleSaveVariable", "handleSaveEdit"}, t \in EditTexts}

\* the values a variable starts with: none, strings, numbers, booleans and
\* objects
StoredValues ==
  { Undefined, Str("hello"), Str("0xABC123"), Str("100"), Str("true"), Str(""),
    Num("100"), Num("0"), Bool("true"), Bool("false"),
    Object(<<Member(Str("a"), Num("100"))>>), Object(<<>>),
    Array(<<Num("100"), Bool("true")>>) }

\* a variable with every field of ContractVariable
NamedVariable(id, name, type, v) ==
  [id |-> id, name |-> name, type |-> type, initialValue |-> v, description |-> "d"]

\* a document with every field of ContractSpec
WholeSpec(id, lang, variables) ==
  [kind |-> "doc", id |-> id,
   metadata |-> [name |-> "TokenX", symbol |-> "TX"],
   variables |-> variables, methods |-> <<"m1">>, events |-> <<"e1">>,
   permissions |-> <<"p1">>, language |-> lang]

EditedSpecs ==
  { WholeSpec(1, lang,
              [i \in 1..n |-> NamedVariable(ItemNames[i], "owner", "address",
                                             IF i = 2 THEN Num("100") ELSE Undefined)]) :
      lang \in Languages, n \in 0..MaxVariables }

UpdateCalls ==
  {[fn |-> "handleVariableUpdate", spec |-> d, variableId |-> ItemNames[i],
    updates |-> [initialValue |-> v]] :
     d \in EditedSpecs \cup {NullV}, i \in 1..(MaxVariables + 1), v \in StoredValues}

\* the permission rules of the documents that are normalized: the id, name
\* and role missing, empty or set, and the three sources of a description
BarePermissions ==
  { Permission(id, name, role, Undefined, Undefined, Undefined) :
      id \in {Undefined, Str(""), Str("perm-1"), Str("perm-2"), Str("owner-rule")},
      name \in {Undefined, Str(""), Str("Admin")},
      role \in {Undefined, Str("owner")} }

DescribedPermissions ==
  { Permission(Str("owner-rule"), Undefined, Undefined, description, methods, condition) :
      description \in {Undefined, Str("d")},
      methods \in {Undefined, Array(<<>>), Array(<<Str("m1")>>)},
      condition \in {Undefined, Str("any"), Str("owner")} }

PermissionLists ==
  UNION {[1..n -> BarePermissions] : n \in 0..MaxPermissions}
    \cup {<<p>> : p \in DescribedPermissions}

PermittedSpec(permissions) ==
  [WholeSpec(1, "csharp", <<NamedVariable("i1", "owner", "address", Num("100"))>>)
     EXCEPT !.permissions = permissions]

NormalizeCalls ==
  {[fn |-> "normalizeSpecForBackend", spec |-> PermittedSpec(l)] : l \in PermissionLists}

\* the variables whose editor is opened
OpenCalls ==
  {[fn |-> "startEditingVariable",
    variable |-> NamedVariable("i1", "owner", "address", v)] : v \in StoredValues}

\* The bodies of the requests that carry a document, each from the values
\* of the render its handler runs in.
\* spec ? normalizeSpecForBackend(spec) : null
NormalizedOrNull(spec) == IF Truthy(spec) THEN normalizeSpecForBackend(spec) ELSE NullV

\* PrototypeView.handleSendMessage: POST /api/contract/spec
PrototypeRequest(text, spec) == [userPrompt |-> text, existingSpec |-> spec]

\* DevelopmentView.handleSendMessage: POST /api/chat/message
ChatRequest(message, spec, code, id) ==
  [message |-> message, existingSpec |-> NormalizedOrNull(spec),
   existingCode |-> IF Truthy(code) THEN code ELSE Undefined,
   conversationId |-> id]

\* generateCode: POST /api/contract/code
CodeRequest(spec, id) == [spec |-> normalizeSpecForBackend(spec), conversationId |-> id]

\* handleSimulateDeploy: POST /api/neo/simulate_deploy
DeployRequest(spec, code) == [spec |-> NormalizedOrNull(spec), code |-> code]

\* the handlers that send a document, and the field of the body it is in
Senders ==
  {"PrototypeView.handleSendMessage", "handleSendMessage", "generateCode",
   "handleSimulateDeploy", "saveConversation"}

SentDocument(body) ==
  IF "existingSpec" \in DOMAIN body THEN body.existingSpec ELSE body.spec

\* the rules of the documents that are sent: as the backend's model wrote
\* them (a role and no id or name, or nothing), and with id and name
SentPermissions ==
  { Permission(Undefined, Undefined, Undefined, Undefined, Undefined, Undefined),
    Permission(Undefined, Undefined, Str("owner"), Undefined, Array(<<Str("m1")>>), Str("owner")),
    Permission(Str("owner-rule"), Str("Admin"), Undefined, Str("d"), Undefined, Undefined) }

RequestCalls ==
  {[fn |-> sender, spec |-> PermittedSpec(l)] :
     sender \in Senders, l \in UNION {[1..n -> SentPermissions] : n \in 0..MaxPermissions}}

Calls == NormalizeCalls \cup OpenCalls \cup ExtractCalls \cup FindLatestCalls \cup LayoutCalls \cup EditCalls \cup UpdateCalls \cup RequestCalls

\* extractSpecFromMessage(content) on a text
CallExtractSpecFromMessage ==
  /\ call.fn = "extractSpecFromMessage"
  /\ result = NoResult
  /\ result' = Returned(extractSpecFromMessage(Read(call.content)))
  /\ UNCHANGED <<controller, loading, persistence, deploy, recording, call>>

\* findLatestSpecFromMessages(messages)
CallFindLatestSpecFromMessages ==
  /\ call.fn = "findLatestSpecFromMessages"
  /\ result = NoResult
  /\ result' = Returned(findLatestSpecFromMessages(call.messages))
  /\ UNCHANGED <<controller, loading, persistence, deploy, recording, call>>

\* the nodes and edges memo of ContractFlowchart
CallNodesAndEdges ==
  /\ call.fn = "nodesAndEdges"
  /\ result = NoResult
  /\ result' = Returned(nodesAndEdges(call.spec))
  /\ UNCHANGED <<controller, loading, persistence, deploy, recording, call>>

\* Save in the diagram's editor
CallHandleSaveVariable ==
  /\ call.fn = "handleSaveVariable"
  /\ result = NoResult
  /\ result' = Returned(handleSaveVariable(call.text))
  /\ UNCHANGED <<controller, loading, persistence, deploy, recording, call>>

\* Save in the structure list's editor
CallHandleSaveEdit ==
  /\ call.fn = "handleSaveEdit"
  /\ result = NoResult
  /\ result' = Returned(handleSaveEdit(call.text))
  /\ UNCHANGED <<controller, loading, persistence, deploy, recording, call>>

\* updatedSpec of handleVariableUpdate for a document, with nothing computed
\* when there is no document
CallHandleVariableUpdate ==
  /\ call.fn = "handleVariableUpdate"
  /\ result = NoResult
  /\ result' = Returned(IF call.spec = NullV THEN NullV
                        ELSE PatchedSpec(call.spec, call.variableId, call.updates.initialValue))
  /\ UNCHANGED <<controller, loading, persistence, deploy, recording, call>>

\* a double click on a variable node opens the editor
CallStartEditingVariable ==
  /\ call.fn = "startEditingVariable"
  /\ result = NoResult
  /\ result' = Returned(startEditingVariable(call.variable))
  /\ UNCHANGED <<controller, loading, persistence, deploy, recording, call>>

\* Save is clicked with the text the editor opened with
SaveUnchanged ==
  /\ call.fn = "startEditingVariable"
  /\ result # NoResult
  /\ call' = [fn |-> "handleSaveVariable", text |-> result.value,
              editingVariable |-> call.variable]
  /\ result' = NoResult
  /\ UNCHANGED <<controller, loading, persistence, deploy, recording>>

\* normalizeSpecForBackend(spec)
CallNormalizeSpecForBackend ==
  /\ call.fn = "normalizeSpecForBackend"
  /\ result = NoResult
  /\ result' = Returned(normalizeSpecForBackend(call.spec))
  /\ UNCHANGED <<controller, loading, persistence, deploy, recording, call>>

\* a handler builds the body of its request for the document call.spec, in
\* a session that has no code yet and no conversation id
CallSender ==
  /\ call.fn \in Senders
  /\ result = NoResult
  /\ result' = Returned(
       CASE call.fn = "PrototypeView.handleSendMessage" -> PrototypeRequest("hi", call.spec)
         [] call.fn = "handleSendMessage" ->
              ChatRequest("hi", call.spec, EmptyCode, NoConversationId)
         [] call.fn = "generateCode" -> CodeRequest(call.spec, NoConversationId)
         [] call.fn = "handleSimulateDeploy" -> DeployRequest(call.spec, EmptyCode)
         [] call.fn = "saveConversation" ->
              SaveBody(call.spec, <<>>, EmptyCode, Str("python")))
  /\ UNCHANGED <<controller, loading, persistence, deploy, recording, call>>

FunctionInit ==
  /\ Mount([spec |-> NullV, messages |-> <<>>])
  /\ call \in Calls
  /\ result = NoResult

FunctionNext ==
  \/ CallExtractSpecFromMessage
  \/ CallFindLatestSpecFromMessages
  \/ CallNodesAndEdges
  \/ CallHandleSaveVariable
  \/ CallHandleSaveEdit
  \/ CallHandleVariableUpdate
  \/ CallStartEditingVariable
  \/ SaveUnchanged
  \/ CallNormalizeSpecForBackend
  \/ CallSender

FunctionSpec == FunctionInit /\ [][FunctionNext]_vars

\* C15: extractSpecFromMessage never throws, and returns an object exactly
\* when, fences removed, the text from the first { to the last } parses as
\* JSON to an object that has a metadata field in which name is present and
\* a variables field; it returns that object then, and null otherwise.
ExtractorReturnsPresentSpecs ==
  call.fn = "extractSpecFromMessage" /\ result # NoResult =>
    LET stripped == StripFences(StripJsonFences(call.content))
        parses == Matches(stripped) /\ JSONparse(jsonMatch(stripped)).ok
        parsed == JSONparse(jsonMatch(stripped)).value
    IN /\ result.returned
       /\ result.value =
            IF /\ parses
               /\ Has(parsed, "metadata")
               /\ Has(Get(parsed, "metadata"), "name")
               /\ Has(parsed, "variables")
            THEN parsed
            ELSE NullV

\* C16: findLatestSpecFromMessages returns the document extracted from the
\* assistant message with the highest index whose content yields a document,
\* whatever the user's messages hold, and null exactly when no assistant
\* message yields one.
YieldingAssistants(messages) ==
  {k \in DOMAIN messages : /\ messages[k].role = "assistant"
                           /\ extractSpecFromMessage(messages[k].content) # NullV}

LatestAssistantSpecReturned ==
  call.fn = "findLatestSpecFromMessages" /\ result # NoResult =>
    /\ result.returned
    /\ result.value = NullV <=> YieldingAssistants(call.messages) = {}
    /\ \A k \in YieldingAssistants(call.messages) :
         (\A j \in YieldingAssistants(call.messages) : j <= k)
           => result.value = extractSpecFromMessage(call.messages[k].content)

\* C16 witness: the newest message is the user's and holds a document, two
\* older assistant messages hold different documents, and the newer of those
\* two is the one returned
UserSpecPassedOver ==
  /\ call.fn = "findLatestSpecFromMessages"
  /\ Len(call.messages) = 3
  /\ call.messages[3].role = "user"
  /\ extractSpecFromMessage(call.messages[3].content) # NullV
  /\ YieldingAssistants(call.messages) = {1, 2}
  /\ result # NoResult
  /\ result.value = extractSpecFromMessage(call.messages[2].content)
  /\ result.value # extractSpecFromMessage(call.messages[1].content)
  /\ result.value # extractSpecFromMessage(call.messages[3].content)

\* C17: for a non-null document the layout has exactly one metadata node and
\* exactly one node per variable, per method and per event, none for a
\* permission; every other node is the target of exactly one edge, whose
\* source is the metadata node, and there are no further edges; a document
\* whose sections are all empty gives the metadata node alone and no edge.
NodesOf(nodes, kind, refId) ==
  {k \in DOMAIN nodes : nodes[k].kind = kind /\ nodes[k].refId = refId}

EdgesInto(edges, id) == {j \in DOMAIN edges : edges[j].target = id}

LayoutIsStar ==
  call.fn = "nodesAndEdges" /\ call.spec # NullV /\ result # NoResult =>
    LET d == call.spec
        nodes == result.value.nodes
        edges == result.value.edges
    IN /\ Cardinality({k \in DOMAIN nodes : nodes[k].kind = "metadata"}) = 1
       /\ Cardinality({k \in DOMAIN nodes : nodes[k].id = MetadataNodeId}) = 1
       /\ \A i \in DOMAIN d.variables :
            Cardinality(NodesOf(nodes, "variable", d.variables[i].id)) = 1
       /\ \A i \in DOMAIN d.methods :
            Cardinality(NodesOf(nodes, "method", d.methods[i])) = 1
       /\ \A i \in DOMAIN d.events :
            Cardinality(NodesOf(nodes, "event", d.events[i])) = 1
       /\ Len(nodes) = 1 + Len(d.variables) + Len(d.methods) + Len(d.events)
       /\ \A k \in DOMAIN nodes :
            nodes[k].kind # "metadata" =>
              /\ Cardinality(EdgesInto(edges, nodes[k].id)) = 1
              /\ \A j \in EdgesInto(edges, nodes[k].id) : edges[j].source = MetadataNodeId
       /\ \A j \in DOMAIN edges :
            /\ edges[j].source = MetadataNodeId
            /\ \E k \in DOMAIN nodes : nodes[k].kind # "metadata" /\ nodes[k].id = edges[j].target
       /\ Len(edges) = Len(nodes) - 1
       /\ AllSectionsEmpty(d) => Len(nodes) = 1 /\ edges = <<>>

\* C17 witness: a document with items in every section, a permission, and an
\* id used in all of them has been laid out
FullSpecLaidOut ==
  /\ call.fn = "nodesAndEdges"
  /\ call.spec # NullV
  /\ Len(call.spec.variables) = 4
  /\ Len(call.spec.methods) = 2
  /\ Len(call.spec.events) = 1
  /\ Len(call.spec.permissions) = 1
  /\ call.spec.variables[1].id = call.spec.methods[1]
  /\ call.spec.events[1] = call.spec.permissions[1]
  /\ result # NoResult
  /\ Len(result.value.nodes) = 8
  /\ Len(result.value.edges) = 7

\* C18: committing an edit text gives the same update from both editors:
\* initialValue is absent when the text is empty or white space only,
\* otherwise the JSON value of the text without the white space around it
\* when that parses, otherwise that text itself as a string; the update has
\* no field but initialValue.
Ink(t) == {k \in DOMAIN t : t[k] \notin WhiteSpace}

Inked(t) ==
  SubSeq(t, CHOOSE k \in Ink(t) : \A j \in Ink(t) : k <= j,
            CHOOSE k \in Ink(t) : \A j \in Ink(t) : j <= k)

EditCommitsAgree ==
  call.fn \in {"handleSaveVariable", "handleSaveEdit"} /\ result # NoResult =>
    /\ result.returned
    /\ DOMAIN result.value = {"initialValue"}
    /\ handleSaveVariable(call.text) = handleSaveEdit(call.text)
    /\ result.value.initialValue =
         IF Ink(call.text) = {} THEN Undefined
         ELSE IF JSONparse(Inked(call.text)).ok THEN JSONparse(Inked(call.text)).value
         ELSE StrOf(Inked(call.text))

\* C18 witness: the structure list's editor has committed a text that is not
\* JSON and has white space around it, and the string stored is the text
\* between
RawTextCommitted ==
  /\ call.fn = "handleSaveEdit"
  /\ call.text = <<" ", "hello", " ", "world", " ">>
  /\ result # NoResult
  /\ result.value.initialValue = StrOf(<<"hello", " ", "world">>)

\* C19: handleVariableUpdate patches the document: id, metadata, methods,
\* events, permissions and language stay, the variable list keeps its length
\* and order, every variable with another id is unchanged, and the matching
\* variable keeps its id, name and type and differs only in the updated
\* fields.
VariableUpdateIsPatch ==
  call.fn = "handleVariableUpdate" /\ call.spec # NullV /\ result # NoResult =>
    LET before == call.spec
        after == result.value
    IN /\ after.id = before.id
       /\ after.metadata = before.metadata
       /\ after.methods = before.methods
       /\ after.events = before.events
       /\ after.permissions = before.permissions
       /\ after.language = before.language
       /\ Len(after.variables) = Len(before.variables)
       /\ \A k \in DOMAIN before.variables :
            /\ after.variables[k].id = before.variables[k].id
            /\ before.variables[k].id # call.variableId
                 => after.variables[k] = before.variables[k]
            /\ before.variables[k].id = call.variableId
                 => /\ after.variables[k].name = before.variables[k].name
                    /\ after.variables[k].type = before.variables[k].type
                    /\ after.variables[k].description = before.variables[k].description
                    /\ after.variables[k].initialValue = call.updates.initialValue
                    /\ DOMAIN after.variables[k] = DOMAIN before.variables[k]

\* C19 witness: the second of three variables has been given a new value
MiddleVariablePatched ==
  /\ call.fn = "handleVariableUpdate"
  /\ call.spec # NullV
  /\ Len(call.spec.variables) = 3
  /\ call.variableId = call.spec.variables[2].id
  /\ call.spec.variables[2].initialValue = Num("100")
  /\ call.updates.initialValue = Str("hello")
  /\ result # NoResult
  /\ result.value.variables[2].initialValue = Str("hello")
  /\ result.value # call.spec

\* C20: initialValue round-trips through the editor: for a stored string,
\* number, boolean or object, opening the editor and saving the text it
\* opened with stores a value equal to the stored one, of the same type.
InitialValueRoundTrips ==
  /\ call.fn = "handleSaveVariable"
  /\ "editingVariable" \in DOMAIN call
  /\ call.editingVariable.initialValue.kind \in {"string", "number", "boolean", "object"}
  /\ result # NoResult
  => /\ result.value.initialValue.kind = call.editingVariable.initialValue.kind
     /\ result.value.initialValue = call.editingVariable.initialValue

\* C21 as stated: every normalized permission has the rule's own id when the
\* rule has one, else perm-{position}, and the rule's own name when it has
\* one, else its role, else Permission {position}; the list keeps its length
\* and order and the other fields of the document are passed through.
Present(v) == v # Undefined

Filled(v) == v # Undefined /\ v # Str("")

LiveStreams == {k \in DOMAIN streams : streams[k] = "live"}

CaptureHeldOnceAndReleased ==
  /\ Cardinality(LiveStreams) <= 1
  /\ ~mounted /\ pendingStarts = 0 => LiveStreams = {}
  /\ ~isRecording /\ pendingStarts = 0 => LiveStreams = {}

\* C23: at most one code-generation request is in flight, automatic and
\* manual ones together: no generation starts while isGeneratingCode is
\* true, and isGeneratingCode is true whenever a request is pending.
OneGenerationInFlight ==
  /\ [](Len(codeRequests) <= 1)
  /\ [](codeRequests # <<>> => isGeneratingCode)
  /\ [][Len(codeRequests') > Len(codeRequests) => ~isGeneratingCode]_vars

\* C23 witness: a manual generation is in flight, alone, after an automatic
\* one for the same document has completed
ManualGenerationInFlight ==
  /\ manuals = 1
  /\ Len(codeRequests) = 1
  /\ isGeneratingCode
  /\ currentSpec # NullV
  /\ autoCount[currentSpec.id] = 1
  /\ lastGeneratedSpecIdRef = currentSpec.id


\* C24: every save that is scheduled carries the session's values of that
\* moment: the document (normalized), the messages, the code and the
\* language that the session holds once the scheduling handler has run.
SessionBody == SaveBody(currentSpec, chatMessages, currentCode, Str(language))

SavesCarrySessionValues ==
  [][Len(timers') > Len(timers) => timers'[Len(timers')].body = SessionBody']_vars


\* C25: no stale snapshot overwrites a fresher one: once every pending
\* save has been sent, the save sent last is the one scheduled last.
FreshestSavedLast == (timers = <<>> /\ lastSent # 0) => lastSent = saves


\* C26: the document has one writer at a time: while a chat turn is in
\* flight (isLoadingMessage true) only the turn's response changes the
\* document, so the document the response replaces is the one the turn was
\* started with and no edit made meanwhile is discarded.
ChatSettlesIn(requests, requestsAfter) == Len(requestsAfter) < Len(requests)

SingleWriter ==
  [][(isLoadingMessage /\ currentSpec' # currentSpec)
       => ChatSettlesIn(chatRequests, chatRequests')]_vars


\* C27: a conversation record is fetched at most once per id, and only for
\* an id that navigation supplied without a document or messages: never
\* for an id the session obtained from its own first save.
Fetches == Len(loadRequests') > Len(loadRequests)

RecordFetchedOnceForSuppliedId ==
  [][Fetches => /\ conversationId = SuppliedId
                /\ ~hasStateData
                /\ conversationId \notin fetched]_vars


\* C28: every request that carries a document carries the normalized
\* document: in the body of the spec-generation, chat, code-generation,
\* deploy-simulation and save requests every permission rule has an id and
\* a name.
SentDocumentsNormalized ==
  call.fn \in Senders /\ result # NoResult =>
    \A i \in DOMAIN SentDocument(result.value).permissions :
      /\ Filled(SentDocument(result.value).permissions[i].id)
      /\ Filled(SentDocument(result.value).permissions[i].name)


\* the sections of the diagram of call.spec start where a section of n
\* items is followed after Rows(n) rows and the gap, and item i of a
\* section sits in row i div 3 of it
SectionsStacked(Rows(_)) ==
  call.fn = "nodesAndEdges" /\ result # NoResult /\ call.spec # NullV =>
    LET nv == Len(call.spec.variables)
        nm == Len(call.spec.methods)
        ne == Len(call.spec.events)
        yVariables == firstY + rowHeight
        yMethods == yVariables + Rows(nv) * rowHeight + sectionGap
        yEvents == yMethods + Rows(nm) * rowHeight + sectionGap
        nodes == result.value.nodes
        RowOf(i) == ((i - 1) \div columns) * rowHeight
    IN /\ \A i \in 1..nv : nodes[1 + i].position.y = yVariables + RowOf(i)
       /\ \A i \in 1..nm : nodes[1 + nv + i].position.y = yMethods + RowOf(i)
       /\ \A i \in 1..ne : nodes[1 + nv + nm + i].position.y = yEvents + RowOf(i)

\* C29 as stated: each section starts at the start of the section before it
\* plus the rows that section's items occupy times rowHeight plus
\* sectionGap, for every item count from zero upward.
SectionsStackedByRowsOccupied == SectionsStacked(rowsOccupied)

\* C29 as amended: the same, a section of no items counting as one row.
RowsReserved(n) == IF n = 0 THEN 1 ELSE rowsOccupied(n)

SectionsStackedByRowsReserved == SectionsStacked(RowsReserved)

\* C29 witness: four variables take two rows, no method takes one, and the
\* events start below both
EventsBelowEmptySection ==
  /\ call.fn = "nodesAndEdges" /\ result # NoResult /\ call.spec # NullV
  /\ Len(call.spec.variables) = 4
  /\ Len(call.spec.methods) = 0
  /\ Len(call.spec.events) = 1
  /\ result.value.nodes[6].position.y = firstY + rowHeight + (2 * rowHeight + sectionGap)
                                  + (rowHeight + sectionGap)


\* C30: normalizeSpecForBackend keeps permission ids unique: when the ids
\* that are present in the list are pairwise distinct, so are the ids of the
\* normalized permissions.
DistinctWhere(ids, Counts(_)) ==
  \A i, j \in DOMAIN ids : (i # j /\ Counts(ids[i]) /\ Counts(ids[j])) => ids[i] # ids[j]

IdsOf(permissions) == [i \in DOMAIN permissions |-> permissions[i].id]

NormalizedIdsUnique ==
  call.fn = "normalizeSpecForBackend" /\ result # NoResult =>
    (DistinctWhere(IdsOf(call.spec.permissions), Present)
       => DistinctWhere(IdsOf(result.value.permissions), Present))

====
